---- MODULE Spec2Model ----
(***************************************************************************)
(* Model of the rocq-ml-toolbox inference core: the Arbiter that owns the  *)
(* pet-server subprocesses, the Session Manager that serves calls under a  *)
(* per-worker Redis lock, and the persisted session record used to replay  *)
(* a session on a restarted pet-server.                                     *)
(*                                                                         *)
(* Granularity.  Every redis command is atomic.  A Session Manager call    *)
(* is cut at its blocking points (lock wait, wait for OK, each worker RPC);*)
(* the straight-line code between two blocking points is one action.  The  *)
(* supervisor is cut at each redis command and each subprocess operation,   *)
(* and so are the main thread of arbiter.py (start sequence, signal,        *)
(* shutdown) and its RAM monitor (the check, then the SET).                 *)
(*                                                                         *)
(* Time.  Only the durations the code sets are kept: the TTL last written  *)
(* to a lock and the SIGALRM delay armed by its holder.  A lock may expire *)
(* under its holder exactly when the holder sits at a blocking point whose *)
(* duration is not bounded below that TTL.                                 *)
(***************************************************************************)
EXTENDS Integers, Sequences, FiniteSets, TLC

(* ------------------------------ bounds -------------------------------- *)
NumPet == 2
NumCallers == 2
MaxSessions == 1
MaxGen == 2
MaxEpoch == 4
MaxTactics == 2
MaxCalls == 4
MaxProbes == 2
SharedCalls == 3
SharedSessions == 1
ArbiterCalls == 2
SharedEpoch == 3
SharedGen == 1
TreeNodes == 3
StateKeys == 2
CreateSessions == 6
PoolCalls == 2
PoolSessions == 2
PoolEpoch == 2
PoolGen == 1
PairCalls == 3
PairSessions == 3
PairEpoch == 2
PairGen == 1
MainGen == 2
MaxAdds == 3
MaxStack == 4
MaxPath == 4
ClientSt == 2
ClientGen == 1
MaxRetry == 1

(* -------------------------- program constants -------------------------- *)
timeout_ok == 15
timeout_eps == 10
timeout_run == 60
timeout_get_state == 120

Pets == 0 .. (NumPet - 1)
Callers == 1 .. NumCallers
Max(a, b) == IF a > b THEN a ELSE b
SessionIds ==
    1 .. Max(Max(MaxSessions, SharedSessions),
             Max(CreateSessions, Max(PoolSessions, PairSessions)))
Generations == 0 .. Max(Max(MaxGen, Max(PairGen, MainGen)), Max(SharedGen, PoolGen))
\* The worker the first session is assigned to.  A worker without sessions and
\* its supervisor share nothing with the others but the arbiter process.
Served == {1 % NumPet}
NoOne == 0
None == -1

PetStatus == {"OK", "RESTART_NEEDED", "RESTARTING"}
\* redis GET of a key that does not exist.
Missing == "(nil)"
\* What pet_status:<i> can hold: a PetStatus, "DOWN" once the arbiter has stopped
\* the pool, nothing before it has started it.
RedisStatus == PetStatus \cup {"DOWN", Missing}

Routes == {"get_state_at_pos", "start", "run", "goals", "state_equal"}
StateRoutes == {"run", "goals", "state_equal"}
Tactics == {"t1", "t2", "bad"}
Timeouts == {0, 60}

\* A StateExtended.  p: the subprocess incarnation that produced the state (what
\* the opaque id `st` is valid in); g: the generation tag; sem: what the state
\* denotes, the root request followed by the tactics applied to it.
Handle(p, g, sem) == [p |-> p, g |-> g, sem |-> sem]
NoState == Handle(None, None, <<>>)
EmptyMap == [h \in {} |-> NoState]
\* A Session record; filepath stands for (filepath, line, character), FALSE while unset.
NoSession == [pet_idx |-> None, filepath |-> FALSE, tactics |-> <<>>,
              generation |-> None, mapping_state |-> EmptyMap]
MapPut(m, k, v) == [h \in (DOMAIN m) \cup {k} |-> IF h = k THEN v ELSE m[h]]

VARIABLES
    status,        \* redis pet_status:<i>
    generation,    \* redis generation:<i>
    epoch,         \* redis pet_monitor_epoch:<i>
    lock,          \* redis pet_lock:<i>: the caller whose token it stores, or NoOne
    lockTtl,       \* seconds last written as TTL of pet_lock:<i>
    sessions,      \* redis session:<s>, NoSession while the key is absent
    assigned,      \* redis session_assigned_idx_key
    session_lock,  \* redis session_lock: the handler whose token it stores, or NoOne
    cache_state,   \* redis cache_state:<pos, generation, i>
    pet_servers,   \* arbiter: per index the subprocess [inc, alive]
    sup,           \* arbiter: position of the supervisor thread of index i
    probes,        \* messages published on arbiter:req:<i> and not yet consumed
    pytanques,     \* per request handler and index: incarnation connected to, or None
    worker_generations, \* per request handler and index: generation at connect
    pc,            \* per request handler: blocking point of the call in progress
    req,           \* per request handler: arguments and locals of that call
    held,          \* per session: the states its client has been returned
    env,           \* the run's environment: the request handlers started, the calls
                   \* issued so far, and how far clients, faults and supervisor go
    io,            \* argument and result of a function applied on its own
    main,          \* arbiter.py main thread: position, _stop_event, loop index
    ram,           \* arbiter.py monitor_ram, per index: position in the check
    launcher,      \* cli.py main: position of the launcher
    arbiter_ready  \* redis key read by cli.py through arbiter_key()

vars == <<status, generation, epoch, lock, lockTtl, sessions, assigned, session_lock,
          cache_state, pet_servers, sup, probes, pytanques, worker_generations, pc,
          req, held, env, io, main, ram, launcher, arbiter_ready>>

redisVars == <<status, generation, epoch, lock, lockTtl, sessions, assigned, session_lock,
               cache_state>>
arbiterVars == <<pet_servers, sup, probes>>
managerVars == <<pytanques, worker_generations, pc, req, held, env>>
mainVars == <<main, ram, launcher, arbiter_ready>>

\* No function is being applied on its own.
NoIO == [fn |-> "none"]

\* A finished call answers before anything else moves: Return touches only the
\* handler's own position, so taking it first loses no state of the rest.
Responding == \E c \in Callers : pc[c] = "done"

NoReq == [route |-> "none", sid |-> None, st |-> NoState, st2 |-> NoState,
          tac |-> "", timeout |-> 0, failure |-> FALSE, pet |-> None,
          sess |-> NoSession, arg |-> NoState, arg2 |-> NoState,
          cur |-> NoState, k |-> 0, gen |-> None,
          start_epoch |-> 0, bump_due |-> FALSE, seen |-> "none", alarm |-> 0, sent_to |-> None,
          ret |-> NoState, error |-> "none", cause |-> "none", kill |-> FALSE,
          waiting |-> {}, before |-> <<>>]

(* ------------------------------ arbiter -------------------------------- *)

\* start_pet_servers: one subprocess per index, status OK, generation 0.
start_pet_servers ==
    /\ pet_servers = [i \in Pets |-> [inc |-> 0, alive |-> TRUE, ref |-> TRUE]]
    /\ status = [i \in Pets |-> "OK"]
    /\ generation = [i \in Pets |-> 0]

\* SessionManager.__init__ on a redis that holds no lock, session or counter.
InitManager ==
    /\ epoch = [i \in Pets |-> 0]
    /\ lock = [i \in Pets |-> NoOne]
    /\ lockTtl = [i \in Pets |-> 0]
    /\ sessions = [s \in SessionIds |-> NoSession]
    /\ assigned = 0
    /\ session_lock = NoOne
    /\ cache_state = [i \in Pets |-> [g \in Generations |-> NoState]]
    /\ pytanques = [c \in Callers |-> [i \in Pets |-> None]]
    /\ worker_generations = [c \in Callers |-> [i \in Pets |-> None]]
    /\ pc = [c \in Callers |-> "idle"]
    /\ req = [c \in Callers |-> NoReq]
    /\ held = [s \in SessionIds |-> {}]
    /\ probes = [i \in Pets |-> 0]

\* arbiter.py main in its `while not _stop_event.is_set()` loop.
Running == [pc |-> "running", stop |-> FALSE, k |-> 0, term |-> FALSE]

\* The arbiter process past its start sequence, the server launched.
InitRunning ==
    /\ main = Running
    /\ ram = [i \in Pets |-> [pc |-> "check", over |-> None]]
    /\ launcher = "serving"
    /\ arbiter_ready = 0

\* The state once the arbiter has started the pool and the server is constructed.
InitCommon ==
    /\ start_pet_servers
    /\ InitManager
    /\ InitRunning
    /\ io = NoIO

\* The positions of main at which the daemon threads of the arbiter run: from
\* their start to the exit of the process.
Threads == {"running", "h_stop", "f_stop"}

\* The pet-server of index i exits on its own (crash, operator kill).
PetCrash(i) ==
    /\ ~Responding
    /\ pet_servers[i].alive
    /\ pet_servers[i].inc < env.max_gen
    /\ pet_servers' = [pet_servers EXCEPT ![i].alive = FALSE]
    /\ UNCHANGED <<redisVars, sup, probes, managerVars, io, mainVars>>

\* gunicorn.config.py monitor_redis_for_restarts, steps 1 and 2 of an iteration:
\* crash poll, else RAM check.
SupPoll(i) ==
    /\ ~Responding
    /\ sup[i] = <<"g", "poll">>
    /\ epoch[i] < env.max_epoch
    /\ \/ /\ ~pet_servers[i].alive
          /\ status' = [status EXCEPT ![i] = "RESTART_NEEDED"]
       \/ /\ pet_servers[i].alive
          /\ UNCHANGED status
       \/ /\ pet_servers[i].alive
          /\ pet_servers[i].inc < env.max_gen
          /\ status' = [status EXCEPT ![i] = "RESTART_NEEDED"]
    /\ sup' = [sup EXCEPT ![i] = <<"g", "react">>]
    /\ UNCHANGED <<generation, epoch, lock, lockTtl, sessions, assigned, session_lock,
                   cache_state,
                   pet_servers, probes, managerVars, io, mainVars>>

\* gunicorn.config.py monitor_redis_for_restarts, step 3: react to RESTART_NEEDED.
SupReact(i) ==
    /\ ~Responding
    /\ sup[i] = <<"g", "react">>
    /\ IF status[i] = "RESTART_NEEDED"
       THEN /\ status' = [status EXCEPT ![i] = "RESTARTING"]
            /\ sup' = [sup EXCEPT ![i] = <<"g", "stop">>]
       ELSE /\ UNCHANGED status
            /\ sup' = [sup EXCEPT ![i] = <<"g", "epoch">>]
    /\ UNCHANGED <<generation, epoch, lock, lockTtl, sessions, assigned, session_lock,
                   cache_state,
                   pet_servers, probes, managerVars, io, mainVars>>

\* gunicorn.config.py monitor_redis_for_restarts, step 4: bump the monitor epoch.
SupEpoch(i) ==
    /\ ~Responding
    /\ sup[i] = <<"g", "epoch">>
    /\ epoch' = [epoch EXCEPT ![i] = @ + 1]
    /\ sup' = [sup EXCEPT ![i] = <<"g", "poll">>]
    /\ UNCHANGED <<status, generation, lock, lockTtl, sessions, assigned, session_lock,
                   cache_state,
                   pet_servers, probes, managerVars, io, mainVars>>

\* Where the supervisor loop of flavour f resumes after restart_single_pet_server
\* returned.
AfterRestart(f) == IF f = "g" THEN <<"g", "epoch">> ELSE <<"t", "reply">>

\* An except clause that ends the supervisor thread instead of looping.
AfterRaise_thread_exits(f) == <<f, "exited">>

\* Where the supervisor loop resumes after restart_single_pet_server raised.
AfterRaise(f) == IF f = "g" THEN <<"g", "poll">> ELSE <<"t", "listen">>

\* restart_single_pet_server: terminate the old subprocess, if the list still
\* holds it.
RestartStop(i) ==
    /\ ~Responding
    /\ main.pc \in Threads
    /\ sup[i][2] = "stop"
    /\ pet_servers' = [pet_servers EXCEPT ![i].alive = @ /\ ~pet_servers[i].ref]
    /\ sup' = [sup EXCEPT ![i] = <<sup[i][1], "spawn">>]
    /\ UNCHANGED <<redisVars, probes, managerVars, io, mainVars>>

\* A restart that goes from the Popen to the settling sleep without touching
\* the generation.
RestartSpawn_skips_generation(i) ==
    /\ ~Responding
    /\ main.pc \in Threads
    /\ sup[i][2] = "spawn"
    /\ pet_servers[i].inc < env.max_gen
    /\ pet_servers' = [pet_servers EXCEPT ![i] = [inc |-> @.inc + 1, alive |-> TRUE, ref |-> TRUE]]
    /\ sup' = [sup EXCEPT ![i] = <<sup[i][1], "ok">>]
    /\ UNCHANGED <<redisVars, probes, managerVars, io, mainVars>>

\* restart_single_pet_server: Popen of the replacement on the same port.
RestartSpawn(i) ==
    /\ ~Responding
    /\ main.pc \in Threads
    /\ sup[i][2] = "spawn"
    /\ pet_servers[i].inc < env.max_gen
    /\ pet_servers' = [pet_servers EXCEPT ![i] = [inc |-> @.inc + 1, alive |-> TRUE, ref |-> TRUE]]
    /\ sup' = [sup EXCEPT ![i] = <<sup[i][1], "gen">>]
    /\ UNCHANGED <<redisVars, probes, managerVars, io, mainVars>>

\* restart_single_pet_server: Popen raises; the loop's except clause logs and
\* the `while not _stop_event.is_set()` around it goes on or ends the thread.
RestartSpawnFails(i) ==
    /\ ~Responding
    /\ main.pc \in Threads
    /\ sup[i][2] = "spawn"
    /\ sup' = [sup EXCEPT ![i] = IF main.stop THEN <<sup[i][1], "exited">>
                                 ELSE AfterRaise(sup[i][1])]
    /\ UNCHANGED <<redisVars, pet_servers, probes, managerVars, io, mainVars>>

\* A restart that writes generation 1 instead of reading the key.
RestartGen_from_zero(i) ==
    /\ ~Responding
    /\ main.pc \in Threads
    /\ sup[i][2] = "gen"
    /\ generation' = [generation EXCEPT ![i] = 1]
    /\ sup' = [sup EXCEPT ![i] = <<sup[i][1], "ok">>]
    /\ UNCHANGED <<status, epoch, lock, lockTtl, sessions, assigned, session_lock,
                   cache_state,
                   pet_servers, probes, managerVars, io, mainVars>>

\* restart_single_pet_server: generation := generation + 1, a missing key
\* counting as 0.
RestartGen(i) ==
    /\ ~Responding
    /\ main.pc \in Threads
    /\ sup[i][2] = "gen"
    /\ generation' = [generation EXCEPT ![i] = IF @ = None THEN 1 ELSE @ + 1]
    /\ sup' = [sup EXCEPT ![i] = <<sup[i][1], "ok">>]
    /\ UNCHANGED <<status, epoch, lock, lockTtl, sessions, assigned, session_lock,
                   cache_state,
                   pet_servers, probes, managerVars, io, mainVars>>

\* restart_single_pet_server: after the settling sleep, status := OK.
RestartOk(i) ==
    /\ ~Responding
    /\ main.pc \in Threads
    /\ sup[i][2] = "ok"
    /\ status' = [status EXCEPT ![i] = "OK"]
    /\ sup' = [sup EXCEPT ![i] = AfterRestart(sup[i][1])]
    /\ UNCHANGED <<generation, epoch, lock, lockTtl, sessions, assigned, session_lock,
                   cache_state,
                   pet_servers, probes, managerVars, io, mainVars>>

restart_single_pet_server(i) ==
    \/ RestartStop(i)
    \/ RestartSpawn(i)
    \/ RestartSpawnFails(i)
    \/ RestartGen(i)
    \/ RestartOk(i)

Supervisor(i) ==
    \/ SupPoll(i)
    \/ SupReact(i)
    \/ SupEpoch(i)
    \/ restart_single_pet_server(i)

\* A client of the arbiter publishes a probe on arbiter:req:<i>.
Probe(i) ==
    /\ ~Responding
    /\ probes[i] < MaxProbes
    /\ probes' = [probes EXCEPT ![i] = @ + 1]
    /\ UNCHANGED <<redisVars, pet_servers, sup, managerVars, io, mainVars>>

\* arbiter.py monitor_redis_for_restarts: ps.listen() delivers the next message.
Listen(i) ==
    /\ ~Responding
    /\ main.pc \in Threads
    /\ sup[i] = <<"t", "listen">>
    /\ probes[i] > 0
    /\ probes' = [probes EXCEPT ![i] = @ - 1]
    /\ sup' = [sup EXCEPT ![i] = <<"t", "poll">>]
    /\ UNCHANGED <<redisVars, pet_servers, managerVars, io, mainVars>>

\* arbiter.py monitor_redis_for_restarts, step 1: detect a crash.  On a list
\* entry that stop_pet_servers set to None, p.poll() raises and the thread finds
\* _stop_event set.
Poll(i) ==
    /\ ~Responding
    /\ main.pc \in Threads
    /\ sup[i] = <<"t", "poll">>
    /\ status' = IF pet_servers[i].alive \/ ~pet_servers[i].ref THEN status
                 ELSE [status EXCEPT ![i] = "RESTART_NEEDED"]
    /\ sup' = [sup EXCEPT ![i] = IF pet_servers[i].ref THEN <<"t", "react">>
                                 ELSE <<"t", "exited">>]
    /\ UNCHANGED <<generation, epoch, lock, lockTtl, sessions, assigned, session_lock,
                   cache_state,
                   pet_servers, probes, managerVars, io, mainVars>>

\* arbiter.py monitor_redis_for_restarts, step 2: react to the restart flag.
React(i) ==
    /\ ~Responding
    /\ main.pc \in Threads
    /\ sup[i] = <<"t", "react">>
    /\ sup' = [sup EXCEPT ![i] = IF status[i] = "RESTART_NEEDED"
                                 THEN <<"t", "stop">> ELSE <<"t", "reply">>]
    /\ UNCHANGED <<redisVars, pet_servers, probes, managerVars, io, mainVars>>

\* arbiter.py monitor_redis_for_restarts: publish the reply to the probe.
Reply(i) ==
    /\ ~Responding
    /\ main.pc \in Threads
    /\ sup[i] = <<"t", "reply">>
    /\ sup' = [sup EXCEPT ![i] = <<"t", "listen">>]
    /\ UNCHANGED <<redisVars, pet_servers, probes, managerVars, io, mainVars>>

monitor_redis_for_restarts(i) ==
    \/ Listen(i)
    \/ Poll(i)
    \/ React(i)
    \/ Reply(i)
    \/ restart_single_pet_server(i)

\* arbiter.py monitor_ram: psutil reports the subprocess of index i over
\* MAX_RAM_PER_PET.  over keeps which subprocess that was.
RamCheck(i) ==
    /\ ~Responding
    /\ main.pc \in Threads
    /\ ~main.stop
    /\ ram[i].pc = "check"
    /\ pet_servers[i].alive
    /\ pet_servers[i].ref
    /\ pet_servers[i].inc < env.max_gen
    /\ ram' = [ram EXCEPT ![i] = [pc |-> "set", over |-> pet_servers[i].inc]]
    /\ UNCHANGED <<redisVars, arbiterVars, managerVars, io, main, launcher, arbiter_ready>>

\* arbiter.py monitor_ram: the SET of RESTART_NEEDED that follows the check.
RamSet(i) ==
    /\ ~Responding
    /\ main.pc \in Threads
    /\ ram[i].pc = "set"
    /\ status' = [status EXCEPT ![i] = "RESTART_NEEDED"]
    /\ ram' = [ram EXCEPT ![i].pc = "check"]
    /\ UNCHANGED <<generation, epoch, lock, lockTtl, sessions, assigned, session_lock,
                   cache_state,
                   arbiterVars, managerVars, io, main, launcher, arbiter_ready>>

monitor_ram(i) ==
    \/ RamCheck(i)
    \/ RamSet(i)

\* clean_redis_all: every key matching a pattern of ALL_KEYS_STAR is deleted.
\* session_lock and cache_state:* match none of them.
clean_redis_all ==
    /\ status' = [i \in Pets |-> Missing]
    /\ generation' = [i \in Pets |-> None]
    /\ epoch' = [i \in Pets |-> 0]
    /\ lock' = [i \in Pets |-> NoOne]
    /\ lockTtl' = [i \in Pets |-> 0]
    /\ sessions' = [s \in SessionIds |-> NoSession]
    /\ assigned' = 0
    /\ UNCHANGED <<session_lock, cache_state>>

\* main: clean_redis_all() of the start sequence.
MainClean ==
    /\ main.pc = "clean"
    /\ clean_redis_all
    /\ main' = [main EXCEPT !.pc = "kill"]
    /\ UNCHANGED <<arbiterVars, managerVars, io, ram, launcher, arbiter_ready>>

\* main: kill_all_pet() kills every process named pet-server.
kill_all_pet ==
    /\ main.pc = "kill"
    /\ pet_servers' = [i \in Pets |-> [pet_servers[i] EXCEPT !.alive = FALSE]]
    /\ main' = [main EXCEPT !.pc = "spawn"]
    /\ UNCHANGED <<redisVars, sup, probes, managerVars, io, ram, launcher, arbiter_ready>>

\* start_pet_servers, first loop: Popen of one pet-server per index.
StartSpawn ==
    /\ main.pc = "spawn"
    /\ pet_servers' = [i \in Pets |-> [inc |-> 0, alive |-> TRUE, ref |-> TRUE]]
    /\ main' = [main EXCEPT !.pc = "settle", !.k = 0]
    /\ UNCHANGED <<redisVars, sup, probes, managerVars, io, ram, launcher, arbiter_ready>>

\* start_pet_servers, second loop, after the settling sleep: status OK and
\* generation 0 for index main.k.  main starts the threads after the last one.
StartSettle ==
    /\ main.pc = "settle"
    /\ status' = [status EXCEPT ![main.k] = "OK"]
    /\ generation' = [generation EXCEPT ![main.k] = 0]
    /\ main' = IF main.k + 1 < NumPet THEN [main EXCEPT !.k = @ + 1]
               ELSE [main EXCEPT !.pc = "running", !.k = 0]
    /\ UNCHANGED <<epoch, lock, lockTtl, sessions, assigned, session_lock, cache_state,
                   arbiterVars, managerVars, io, ram, launcher, arbiter_ready>>

\* SIGINT or SIGTERM while main sleeps in its loop: _signal_handler runs
\* _shutdown, which sets _stop_event and enters stop_pet_servers.
Signal ==
    /\ main.pc = "running"
    /\ main' = [main EXCEPT !.pc = "h_stop", !.stop = TRUE, !.k = 0]
    /\ UNCHANGED <<redisVars, arbiterVars, managerVars, io, ram, launcher, arbiter_ready>>

\* stop_pet_servers, index main.k: a None entry is skipped, any other subprocess
\* is terminated and waited for.
StopTerminate ==
    /\ main.pc \in {"h_stop", "f_stop"}
    /\ main.k < NumPet
    /\ ~main.term
    /\ IF pet_servers[main.k].ref
       THEN /\ pet_servers' = [pet_servers EXCEPT ![main.k].alive = FALSE]
            /\ main' = [main EXCEPT !.term = TRUE]
       ELSE /\ main' = [main EXCEPT !.k = @ + 1]
            /\ UNCHANGED pet_servers
    /\ UNCHANGED <<redisVars, sup, probes, managerVars, io, ram, launcher, arbiter_ready>>

\* stop_pet_servers, index main.k: the entry is set to None and status is SET
\* to "DOWN".
StopClear ==
    /\ main.pc \in {"h_stop", "f_stop"}
    /\ main.term
    /\ pet_servers' = [pet_servers EXCEPT ![main.k].ref = FALSE]
    /\ status' = [status EXCEPT ![main.k] = "DOWN"]
    /\ main' = [main EXCEPT !.k = @ + 1, !.term = FALSE]
    /\ UNCHANGED <<generation, epoch, lock, lockTtl, sessions, assigned, session_lock,
                   cache_state, sup, probes, managerVars, io, ram, launcher,
                   arbiter_ready>>

stop_pet_servers ==
    \/ StopTerminate
    \/ StopClear

\* _shutdown, after stop_pet_servers: clean_redis_all().  The handler returns to
\* main, whose loop ends and whose finally clause runs _shutdown again; after
\* that main returns and the daemon threads die with the process.
ShutdownClean ==
    /\ main.pc \in {"h_stop", "f_stop"}
    /\ main.k = NumPet
    /\ clean_redis_all
    /\ main' = [main EXCEPT !.pc = IF @ = "h_stop" THEN "f_stop" ELSE "exited", !.k = 0]
    /\ UNCHANGED <<arbiterVars, managerVars, io, ram, launcher, arbiter_ready>>

_shutdown ==
    \/ stop_pet_servers
    \/ ShutdownClean

\* cli.py main: wait for the key of arbiter_key() to be 1, for 60 seconds; the
\* start sequence of the arbiter is over long before that.
WaitArbiter ==
    /\ launcher = "wait"
    /\ IF arbiter_ready = 1
       THEN launcher' = "probing"
       ELSE /\ main.pc \notin {"clean", "kill", "spawn", "settle"}
            /\ launcher' = "TimeoutError"
    /\ UNCHANGED <<redisVars, arbiterVars, managerVars, io, main, ram, arbiter_ready>>

(* --------------------------- session manager --------------------------- *)

\* The blocking points at which a worker RPC is in flight.
InRpc == {"rp_root", "rp_run", "rpc"}

\* The Python exception class of each way a call can fail.
PyClass(cause) ==
    CASE cause = "unknown_session" -> "KeyError"
      [] cause \in {"protocol", "worker_timeout"} -> "PetanqueError"
      [] cause = "lock_error" -> "ValueError"
      [] cause = "wait_timeout" -> "RuntimeError"
      [] cause = "broken" -> "OSError"
      [] OTHER -> "UnresponsiveError"

\* server.py error handlers: the error code of the response for an exception class.
handle_error(class) ==
    CASE class = "PetanqueError" -> "petanque_error"
      [] class = "UnresponsiveError" -> "unresponsive"
      [] class = "KeyError" -> "not_found"
      [] OTHER -> "internal_error"

\* _pet_ctx, the except clauses: these classes are re-raised as they are; every
\* other exception sends the kill signal and is raised as UnresponsiveError.
\* The except clauses of _pet_ctx without the one for PetanqueError.
Reraised_no_petanque == {"KeyError", "ValueError"}

\* The exception classes the except clauses of _pet_ctx raise again as they are.
Reraised == {"KeyError", "PetanqueError", "ValueError"}

\* The locals of the call of handler c on worker i, threaded through the
\* straight-line code between two blocking points.  exc # "none" once the code raised.
Ctx(c, i) ==
    [r |-> req[c], store |-> sessions, ttl |-> lockTtl[i], conn |-> pytanques[c][i],
     wgen |-> worker_generations[c][i], cache |-> cache_state, exc |-> "none",
     pcn |-> pc[c]]

Raise(x, cause) == [x EXCEPT !.exc = cause, !.r.alarm = 0]

get_generation(i) == generation[i]

\* _get_worker: reuse the cached connection if its generation is current, else
\* close it and connect to the port of index i.
_get_worker(x, i) ==
    IF x.conn # None /\ x.wgen = get_generation(i)
    THEN x
    ELSE IF pet_servers[i].alive
         THEN [x EXCEPT !.conn = pet_servers[i].inc, !.wgen = get_generation(i)]
         ELSE Raise(x, "unreachable")

\* lock.extend(secs, replace_ttl=True): LockNotOwnedError unless the key still
\* stores this call's token.
extend(x, c, i, secs) ==
    IF lock[i] = c THEN [x EXCEPT !.ttl = secs] ELSE Raise(x, "lock_error")

\* A save that moves the session to the next worker.
save_session_migrates(x) ==
    [x EXCEPT !.store[x.r.sid] = [x.r.sess EXCEPT !.pet_idx = (@ + 1) % NumPet]]

save_session(x) == [x EXCEPT !.store[x.r.sid] = x.r.sess]

\* get_state_at_pos, the part of op after _get_state_at_pos returned state, up to
\* the reply of redis to the SET of save_session.
CompleteGetState(x, state) ==
    LET x1 == [x EXCEPT !.r.sess.filepath = TRUE,
                        !.r.sess.tactics = <<[st |-> state, tac |-> "", by |-> x.r.sid]>>,
                        !.r.sess.mapping_state = EmptyMap]
    IN [save_session(x1) EXCEPT !.r.ret = state, !.pcn = "saved"]

\* _pet_call from the forced failure on: _alarm(timeout), then op up to its worker RPC.
StartOp(x, c, i) ==
    IF x.r.failure THEN Raise(x, "forced")
    ELSE
    LET x1 == [x EXCEPT !.r.alarm = IF x.r.timeout = 0 THEN 0 ELSE x.r.timeout,
                        !.r.gen = IF x.r.route \in {"get_state_at_pos", "start"}
                                  THEN get_generation(i) ELSE @]
        x2 == IF x.r.route = "get_state_at_pos"
              THEN [x1 EXCEPT !.r.sess.generation = get_generation(i)]
              ELSE x1
        x3 == extend(x2, c, i, x.r.timeout + timeout_eps)
        x4 == IF x.r.route = "get_state_at_pos" THEN _get_worker(x3, i) ELSE x3
        gen == get_generation(i)
    IN  IF x3.exc # "none" THEN x3
        ELSE IF x4.exc # "none" THEN x4
        ELSE IF x.r.route = "get_state_at_pos" /\ x4.cache[i][gen] # NoState
                /\ x4.cache[i][gen].g = gen
        THEN CompleteGetState(x4, x4.cache[i][gen])
        ELSE [x4 EXCEPT !.r.arg2 = IF x.r.st2 \in DOMAIN x.r.sess.mapping_state
                                   THEN x.r.sess.mapping_state[x.r.st2] ELSE x.r.st2,
                        !.r.sent_to = x4.conn,
                        !.pcn = "rpc"]

\* _pet_ctx after check_session: rewrite the submitted state through mapping_state.
AfterCheck(x, c, i) ==
    LET m == x.r.sess.mapping_state
        x1 == [x EXCEPT !.r.arg = IF x.r.st \in DOMAIN m THEN m[x.r.st] ELSE x.r.st,
                        !.r.alarm = 0]
    IN StartOp(x1, c, i)

\* A replay that saves the session without recording the generation it ran on.
ReplayFrom_keeps_generation(x, c, i, k) ==
    IF k > Len(x.r.sess.tactics)
    THEN AfterCheck(save_session(x), c, i)
    ELSE LET x1 == extend([x EXCEPT !.r.alarm = timeout_run], c, i,
                          timeout_run + timeout_eps)
         IN IF x1.exc # "none" THEN x1
            ELSE [x1 EXCEPT !.r.k = k, !.r.sent_to = x1.conn, !.pcn = "rp_run"]

\* check_session, the loop over sess.tactics from index k, up to its worker.run;
\* after the loop, record the generation and save the session.
ReplayFrom(x, c, i, k) ==
    IF k > Len(x.r.sess.tactics)
    THEN AfterCheck(save_session([x EXCEPT !.r.sess.generation = x.r.gen]), c, i)
    ELSE LET x1 == extend([x EXCEPT !.r.alarm = timeout_run], c, i,
                          timeout_run + timeout_eps)
         IN IF x1.exc # "none" THEN x1
            ELSE [x1 EXCEPT !.r.k = k, !.r.sent_to = x1.conn, !.pcn = "rp_run"]

\* check_session up to its first worker RPC.
check_session(x, c, i) ==
    LET current_generation == get_generation(i)
        x1 == _get_worker([x EXCEPT !.r.gen = current_generation], i)
        x2 == extend([x1 EXCEPT !.r.alarm = timeout_get_state], c, i,
                     timeout_get_state + timeout_eps)
        cached == x2.cache[i][current_generation]
    IN  IF x.r.sess.generation = current_generation
        THEN AfterCheck([x EXCEPT !.r.gen = current_generation], c, i)
        ELSE IF x1.exc # "none" THEN x1
        ELSE IF ~x.r.sess.filepath
        THEN AfterCheck(save_session([x1 EXCEPT !.r.sess.generation = current_generation]),
                        c, i)
        ELSE IF x2.exc # "none" THEN x2
        ELSE IF cached # NoState /\ cached.g = current_generation
        THEN ReplayFrom([x2 EXCEPT !.r.cur = cached], c, i, 1)
        ELSE [x2 EXCEPT !.r.sent_to = x2.conn, !.pcn = "rp_root"]

\* _pet_ctx after ensure_pet_ok returned: reload the session, get the worker,
\* check the session when the call carries a state.
AfterOk(x, c, i) ==
    LET x1 == _get_worker([x EXCEPT !.r.sess = sessions[x.r.sid],
                                    !.r.before = sessions[x.r.sid].tactics], i)
    IN  IF x1.exc # "none" THEN x1
        ELSE IF x.r.route \in StateRoutes THEN check_session(x1, c, i)
        ELSE StartOp(x1, c, i)

\* An except clause that raises UnresponsiveError without the kill signal.
send_kill_signal_not_sent(i, kill) == status

\* send_kill_signal and _restart_worker, when the except clause of _pet_ctx asks for it.
send_kill_signal(i, kill) ==
    IF kill THEN [status EXCEPT ![i] = "RESTART_NEEDED"] ELSE status

\* A release that deletes the key whatever token it stores.
release_deletes_key(c, i) == [lock EXCEPT ![i] = NoOne]

\* A finally clause that leaves the key to its TTL.
release_left_to_ttl(c, i) == lock

\* lock.release() in the finally clause: deletes the key only if it still stores
\* this call's token; the LockError raised otherwise is ignored.
release(c, i) ==
    IF lock[i] = c THEN [lock EXCEPT ![i] = NoOne] ELSE lock

\* The calls blocked in lock.acquire() on pet_lock:<i> (ghost: redis keeps no
\* queue; acquire polls the key).
Blocked(i) == {d \in Callers : pc[d] = "wait_lock" /\ req[d].pet = i}

\* What is left of a call once it is over: its request and its outcome.
Outcome(r) ==
    [NoReq EXCEPT !.route = r.route, !.sid = r.sid, !.st = r.st, !.st2 = r.st2,
                  !.tac = r.tac, !.timeout = r.timeout, !.failure = r.failure,
                  !.pet = r.pet, !.gen = r.gen, !.ret = r.ret, !.error = r.error,
                  !.cause = r.cause, !.kill = r.kill, !.waiting = r.waiting,
                  !.before = IF r.error = "none" THEN <<>> ELSE r.before]

\* Write back what the straight-line code computed.  When it raised, or when the
\* call is over, the except and finally clauses of _pet_ctx run as well.
Commit(c, i, x) ==
    LET failed == x.exc # "none"
        kill == failed /\ PyClass(x.exc) \notin Reraised
        over == failed \/ x.pcn = "done"
        \* ghost: the calls that were blocked on the lock when this call sent an
        \* RPC whose deadline lies beyond timeout_ok + timeout_eps
        r1 == IF failed
              THEN [x.r EXCEPT !.cause = x.exc, !.kill = kill, !.alarm = 0,
                               !.ret = NoState,
                               !.error = IF kill THEN "UnresponsiveError"
                                         ELSE PyClass(x.exc)]
              ELSE [x.r EXCEPT !.waiting =
                        IF x.pcn \in InRpc /\ x.r.alarm > timeout_ok + timeout_eps
                        THEN Blocked(i) ELSE {}]
    IN  /\ pc' = [pc EXCEPT ![c] = IF over THEN "done" ELSE x.pcn]
        /\ req' = [req EXCEPT ![c] = IF over THEN Outcome(r1) ELSE r1]
        /\ sessions' = x.store
        /\ cache_state' = x.cache
        /\ lockTtl' = [lockTtl EXCEPT ![i] = x.ttl]
        /\ status' = send_kill_signal(i, kill)
        /\ pytanques' = [pytanques EXCEPT ![c][i] = IF kill THEN None ELSE x.conn]
        /\ worker_generations' = [worker_generations EXCEPT ![c][i] = x.wgen]
        /\ lock' = IF over THEN release(c, i) ELSE lock
        /\ held' = IF ~failed /\ x.pcn = "done" /\ x.r.ret # NoState
                   THEN [held EXCEPT ![x.r.sid] = @ \cup {x.r.ret}]
                   ELSE held
        /\ UNCHANGED <<generation, epoch, assigned, session_lock, arbiterVars, env, io, mainVars>>

\* The positions of a handler inside create_session.
InCreate == {"cs_lock", "cs_incr", "cs_read", "cs_save", "cs_release"}

\* server.py login: a /login request reaches handler c, which calls create_session
\* and blocks in the acquire of session_lock.
Login(c) ==
    /\ ~Responding
    /\ pc[c] = "idle"
    /\ c \in env.handlers
    /\ Cardinality({s \in SessionIds : sessions[s] # NoSession})
         + Cardinality({d \in Callers : pc[d] \in InCreate}) < env.max_sessions
    /\ pc' = [pc EXCEPT ![c] = "cs_lock"]
    /\ req' = [req EXCEPT ![c] = [NoReq EXCEPT !.route = "login"]]
    /\ UNCHANGED <<redisVars, arbiterVars, pytanques, worker_generations, held, env, io, mainVars>>

\* A session_lock that excludes nobody.
SessionLock_excludes_nobody(c) ==
    /\ ~Responding
    /\ pc[c] = "cs_lock"
    /\ session_lock' = c
    /\ pc' = [pc EXCEPT ![c] = "cs_incr"]
    /\ UNCHANGED <<status, generation, epoch, lock, lockTtl, sessions, assigned,
                   cache_state, arbiterVars, pytanques, worker_generations, req, held,
                   env, io, mainVars>>

\* create_session: lock.acquire() on session_lock returns.
SessionLock(c) ==
    /\ ~Responding
    /\ pc[c] = "cs_lock"
    /\ session_lock = NoOne
    /\ session_lock' = c
    /\ pc' = [pc EXCEPT ![c] = "cs_incr"]
    /\ UNCHANGED <<status, generation, epoch, lock, lockTtl, sessions, assigned,
                   cache_state, arbiterVars, pytanques, worker_generations, req, held,
                   env, io, mainVars>>

\* create_session: redis incr of the counter; the value it returns is dropped.
SessionIncr(c) ==
    /\ ~Responding
    /\ pc[c] = "cs_incr"
    /\ assigned' = assigned + 1
    /\ pc' = [pc EXCEPT ![c] = "cs_read"]
    /\ UNCHANGED <<status, generation, epoch, lock, lockTtl, sessions, session_lock,
                   cache_state, arbiterVars, pytanques, worker_generations, req, held,
                   env, io, mainVars>>

\* create_session: assigned_idx = get_assigned_idx() % num_pet_server.
SessionAssign(c) ==
    /\ ~Responding
    /\ pc[c] = "cs_read"
    /\ req' = [req EXCEPT ![c].pet = assigned % NumPet]
    /\ pc' = [pc EXCEPT ![c] = "cs_save"]
    /\ UNCHANGED <<redisVars, arbiterVars, pytanques, worker_generations, held, env, io, mainVars>>

\* create_session: save the empty session under a fresh id (ids in order of saving).
SessionSave(c) ==
    LET s == CHOOSE s \in SessionIds :
                 /\ sessions[s] = NoSession
                 /\ \A u \in SessionIds : u < s => sessions[u] # NoSession
    IN
    /\ ~Responding
    /\ pc[c] = "cs_save"
    /\ sessions' = [sessions EXCEPT ![s] = [NoSession EXCEPT !.pet_idx = req[c].pet]]
    /\ req' = [req EXCEPT ![c].sid = s]
    /\ pc' = [pc EXCEPT ![c] = "cs_release"]
    /\ UNCHANGED <<status, generation, epoch, lock, lockTtl, assigned, session_lock,
                   cache_state, arbiterVars, pytanques, worker_generations, held, env, io, mainVars>>

\* create_session: lock.release() and return of the session id.
SessionRelease(c) ==
    /\ ~Responding
    /\ pc[c] = "cs_release"
    /\ session_lock' = IF session_lock = c THEN NoOne ELSE session_lock
    /\ pc' = [pc EXCEPT ![c] = "done"]
    /\ req' = [req EXCEPT ![c] = [NoReq EXCEPT !.route = "login", !.sid = req[c].sid,
                                               !.pet = req[c].pet]]
    /\ UNCHANGED <<status, generation, epoch, lock, lockTtl, sessions, assigned,
                   cache_state, arbiterVars, pytanques, worker_generations, held, env, io, mainVars>>

create_session(c) ==
    \/ SessionLock(c)
    \/ SessionIncr(c)
    \/ SessionAssign(c)
    \/ SessionSave(c)
    \/ SessionRelease(c)

\* What a client may submit: a route, a session id, and states it was returned.
Requests(s) ==
    {[NoReq EXCEPT !.route = rt, !.sid = s, !.st = a, !.st2 = b, !.tac = t,
                   !.timeout = to, !.failure = f] :
        rt \in Routes, a \in held[s] \cup {NoState},
        b \in held[s] \cup {NoState}, t \in Tactics \cup {""}, to \in Timeouts,
        f \in BOOLEAN}

WellFormed(r) ==
    /\ (r.route \in StateRoutes) = (r.st # NoState)
    /\ (r.route = "state_equal") = (r.st2 # NoState)
    /\ (r.route = "run") = (r.tac # "")
    /\ r.failure => r.timeout # 0
    /\ r.route = "run" => /\ Len(r.st.sem) <= MaxTactics
                          /\ Len(sessions[r.sid].tactics) <= MaxTactics

\* A first line of _pet_ctx that treats an unknown id like any other failure and
\* sends the kill signal to every worker.
Issue_unknown_id_kills(c) ==
    /\ ~Responding
    /\ pc[c] = "idle"
    /\ c \in env.handlers
    /\ env.calls < env.max_calls
    /\ env' = [env EXCEPT !.calls = @ + 1]
    /\ \E s \in SessionIds :
        /\ sessions[s] = NoSession
        /\ pc' = [pc EXCEPT ![c] = "done"]
        /\ req' = [req EXCEPT ![c] = [NoReq EXCEPT !.sid = s, !.cause = "unknown_session",
                                                   !.error = "KeyError"]]
    /\ status' = [i \in Pets |-> "RESTART_NEEDED"]
    /\ UNCHANGED <<generation, epoch, lock, lockTtl, sessions, assigned, session_lock,
                   cache_state,
                   arbiterVars, pytanques, worker_generations, held, io, mainVars>>

\* _pet_ctx, first line: get_session raises KeyError for an unknown id, before
\* any lock is taken; otherwise the call starts waiting for pet_lock:<pet_idx>.
\* Nothing but the session id is read before ensure_pet_ok has returned, so the
\* rest of the request is drawn there.
Issue(c) ==
    /\ ~Responding
    /\ pc[c] = "idle"
    /\ c \in env.handlers
    /\ env.calls < env.max_calls
    /\ env' = [env EXCEPT !.calls = @ + 1]
    /\ \E s \in SessionIds :
        IF sessions[s] = NoSession
        THEN /\ pc' = [pc EXCEPT ![c] = "done"]
             /\ req' = [req EXCEPT ![c] = [NoReq EXCEPT !.sid = s,
                                                        !.cause = "unknown_session",
                                                        !.error = "KeyError"]]
        ELSE /\ sessions[s].pet_idx \in env.pets
             /\ pc' = [pc EXCEPT ![c] = "wait_lock"]
             /\ req' = [req EXCEPT ![c] = [NoReq EXCEPT !.sid = s,
                                                        !.pet = sessions[s].pet_idx]]
    /\ UNCHANGED <<redisVars, arbiterVars, pytanques, worker_generations, held, io, mainVars>>

\* acquire_pet_lock, then the first reads of ensure_pet_ok.
acquire_pet_lock(c) ==
    LET i == req[c].pet IN
    /\ ~Responding
    /\ pc[c] = "wait_lock"
    /\ lock[i] = NoOne
    /\ lock' = [lock EXCEPT ![i] = c]
    /\ lockTtl' = [lockTtl EXCEPT ![i] = timeout_ok + timeout_eps]
    /\ req' = [req EXCEPT ![c].start_epoch = epoch[i],
                          ![c].bump_due = (sup[i] = <<"g", "epoch">>)]
    /\ pc' = [pc EXCEPT ![c] = "wait_ok"]
    /\ UNCHANGED <<status, generation, epoch, sessions, assigned, session_lock,
                   cache_state,
                   arbiterVars, pytanques, worker_generations, held, env, io, mainVars>>

\* ensure_pet_ok, the loop: read the status.
OkPollStatus(c) ==
    /\ ~Responding
    /\ pc[c] = "wait_ok"
    /\ req' = [req EXCEPT ![c].seen = status[req[c].pet]]
    /\ pc' = [pc EXCEPT ![c] = "wait_epoch"]
    /\ UNCHANGED <<redisVars, arbiterVars, pytanques, worker_generations, held, env, io, mainVars>>

\* ensure_pet_ok, the loop: read the epoch; return if the status read was OK and
\* the epoch moved, else sleep and poll again.
OkPollEpoch(c) ==
    LET i == req[c].pet IN
    /\ ~Responding
    /\ pc[c] = "wait_epoch"
    /\ IF req[c].seen = "OK" /\ epoch[i] > req[c].start_epoch
       THEN \E r \in Requests(req[c].sid) :
                /\ WellFormed(r)
                /\ Commit(c, i, AfterOk([Ctx(c, i) EXCEPT !.r = [r EXCEPT !.pet = i]], c, i))
       ELSE /\ pc' = [pc EXCEPT ![c] = "wait_ok"]
            /\ UNCHANGED <<redisVars, arbiterVars, pytanques, worker_generations,
                           req, held, env, io, mainVars>>

\* ensure_pet_ok: timeout_ok seconds passed without OK and a new epoch.
OkTimeout(c) ==
    /\ ~Responding
    /\ pc[c] = "wait_ok"
    /\ Commit(c, req[c].pet, Raise(Ctx(c, req[c].pet), "wait_timeout"))

(* ------------------------------ pet-server ----------------------------- *)

\* What a tactic does to the state it is run on; the empty tactic changes nothing.
Run(sem, tac) == IF tac = "" THEN sem ELSE Append(sem, tac)

\* The connection of handler c reaches the running subprocess of index i.
WorkerUp(c, i) ==
    /\ pet_servers[i].alive
    /\ pytanques[c][i] = pet_servers[i].inc

\* The state id of h means something to the running subprocess of index i.
Valid(h, i) == h.p = pet_servers[i].inc

\* The states the RPC in flight of handler c carries.
Carried(c) ==
    CASE pc[c] = "rp_run" -> {req[c].cur}
      [] pc[c] = "rpc" /\ req[c].route = "state_equal" -> {req[c].arg, req[c].arg2}
      [] pc[c] = "rpc" /\ req[c].route \in StateRoutes -> {req[c].arg}
      [] OTHER -> {}

\* The worker answers the RPC in flight with a result.  A state id from another
\* subprocess is unknown to the worker or names some other state of it: in the
\* second case the worker answers as well.
RpcReturns(c) ==
    LET i == req[c].pet
        r == req[c]
        x == Ctx(c, i)
        inc == pet_servers[i].inc
        ok == \A h \in Carried(c) : Valid(h, i)
    IN
    /\ ~Responding
    /\ pc[c] \in InRpc
    /\ WorkerUp(c, i)
    /\ \/ /\ pc[c] = "rp_root"
          /\ LET state == Handle(inc, r.gen, <<"pos">>)
             IN Commit(c, i, ReplayFrom([x EXCEPT !.cache[i][r.gen] = state,
                                                  !.r.cur = state], c, i, 1))
       \/ /\ pc[c] = "rp_run"
          /\ ok
          /\ LET e == r.sess.tactics[r.k]
                 new == Handle(inc, r.gen, Run(r.cur.sem, e.tac))
             IN Commit(c, i, ReplayFrom(
                    [x EXCEPT !.r.sess.mapping_state = MapPut(@, e.st, new),
                              !.r.cur = new], c, i, r.k + 1))
       \/ /\ pc[c] = "rpc"
          /\ r.route = "run"
          /\ r.tac # "bad"
          /\ LET new == Handle(inc, r.arg.g,
                               IF ok THEN Run(r.arg.sem, r.tac) ELSE <<"alias">>)
                 x1 == [x EXCEPT !.r.sess.tactics = Append(@, [st |-> new, tac |-> r.tac, by |-> r.sid])]
             IN Commit(c, i, [save_session(x1) EXCEPT !.r.ret = new, !.pcn = "saved"])
       \/ /\ pc[c] = "rpc"
          /\ r.route \in {"goals", "state_equal"}
          /\ Commit(c, i, [x EXCEPT !.r.alarm = 0, !.pcn = "done"])
       \/ /\ pc[c] = "rpc"
          /\ r.route = "get_state_at_pos"
          /\ LET state == Handle(inc, r.gen, <<"pos">>)
             IN Commit(c, i, CompleteGetState([x EXCEPT !.cache[i][r.gen] = state], state))
       \/ /\ pc[c] = "rpc"
          /\ r.route = "start"
          /\ Commit(c, i, [x EXCEPT !.r.ret = Handle(inc, r.gen, <<"thm">>),
                                    !.r.alarm = 0, !.pcn = "done"])

\* The worker answers with a structured error: the tactic fails, or a state id
\* is unknown to it.
RpcError(c) ==
    LET i == req[c].pet IN
    /\ ~Responding
    /\ pc[c] \in InRpc
    /\ WorkerUp(c, i)
    /\ \/ pc[c] = "rpc" /\ req[c].route = "run" /\ req[c].tac = "bad"
       \/ \E h \in Carried(c) : ~Valid(h, i)
    /\ Commit(c, i, Raise(Ctx(c, i), "protocol"))

\* The worker gives up on a run after the timeout it was passed and answers with
\* its timeout error code.
RpcWorkerTimeout(c) ==
    LET i == req[c].pet IN
    /\ ~Responding
    /\ \/ pc[c] = "rp_run"
       \/ pc[c] = "rpc" /\ req[c].route = "run" /\ req[c].timeout > 0
    /\ WorkerUp(c, i)
    /\ Commit(c, i, Raise(Ctx(c, i), "worker_timeout"))

\* save_session returned: op returns its state, _alarm disarms SIGALRM and
\* _pet_ctx runs its finally clause.
SaveReturns(c) ==
    /\ ~Responding
    /\ pc[c] = "saved"
    /\ Commit(c, req[c].pet, [Ctx(c, req[c].pet) EXCEPT !.r.alarm = 0, !.pcn = "done"])

\* SIGALRM: the handler raises UnresponsiveError inside whatever op is waiting
\* for, the worker's answer or the reply of redis to save_session.
RpcAlarm(c) ==
    /\ ~Responding
    /\ pc[c] \in InRpc \cup {"saved"}
    /\ req[c].alarm > 0
    /\ Commit(c, req[c].pet, Raise(Ctx(c, req[c].pet), "alarm"))

\* A manager that answers a broken connection by connecting again and sending
\* the RPC a second time.
RpcBroken_sends_again(c) ==
    LET i == req[c].pet IN
    /\ ~Responding
    /\ pc[c] \in InRpc
    /\ ~WorkerUp(c, i)
    /\ pet_servers[i].alive
    /\ pytanques' = [pytanques EXCEPT ![c][i] = pet_servers[i].inc]
    /\ req' = [req EXCEPT ![c].sent_to = pet_servers[i].inc]
    /\ UNCHANGED <<redisVars, arbiterVars, worker_generations, pc, held, env, io, mainVars>>

\* The connection is to a subprocess that is gone: the socket operation fails.
RpcBroken(c) ==
    /\ ~Responding
    /\ pc[c] \in InRpc
    /\ ~WorkerUp(c, req[c].pet)
    /\ Commit(c, req[c].pet, Raise(Ctx(c, req[c].pet), "broken"))

\* How long the holder can stay at its blocking point; 0 is without limit.
Deadline(c) == IF pc[c] \in {"wait_ok", "wait_epoch"} THEN timeout_ok ELSE req[c].alarm

\* redis drops pet_lock:<i> when its TTL runs out under the holder.
LockExpire(i) ==
    /\ ~Responding
    /\ lock[i] # NoOne
    /\ Deadline(lock[i]) = 0 \/ Deadline(lock[i]) >= lockTtl[i]
    /\ lock' = [lock EXCEPT ![i] = NoOne]
    /\ UNCHANGED <<status, generation, epoch, lockTtl, sessions, assigned, session_lock,
                   cache_state,
                   arbiterVars, managerVars, io, mainVars>>

\* The request handler sends the response and is free for the next request.
Return(c) ==
    /\ pc[c] = "done"
    /\ pc' = [pc EXCEPT ![c] = "idle"]
    /\ req' = [req EXCEPT ![c] = NoReq]
    /\ UNCHANGED <<redisVars, arbiterVars, pytanques, worker_generations, held, env, io, mainVars>>

Call(c) ==
    \/ Issue(c)
    \/ acquire_pet_lock(c)
    \/ OkPollStatus(c)
    \/ OkPollEpoch(c)
    \/ OkTimeout(c)
    \/ RpcReturns(c)
    \/ RpcError(c)
    \/ RpcWorkerTimeout(c)
    \/ RpcAlarm(c)
    \/ RpcBroken(c)
    \/ SaveReturns(c)
    \/ Return(c)

(* ------------------------- functions applied alone --------------------- *)

\* A pet_status that is content with one worker.
pet_status_of_some(st) == \E i \in Pets : st[i] = "OK"

\* pet_status: the loop over range(num_pet_server) from index i on, st being
\* what redis answers for each pet_status:<i>.
RECURSIVE pet_status_from(_, _)
pet_status_from(st, i) ==
    IF i = NumPet THEN TRUE
    ELSE IF st[i] = Missing \/ st[i] # "OK" THEN FALSE
    ELSE pet_status_from(st, i + 1)

pet_status(st) == pet_status_from(st, 0)

\* server.py health: answers on pet_status alone.
health ==
    /\ io.fn = "input"
    /\ io' = [fn |-> "pet_status", cls |-> "none", arg |-> None, ret |-> pet_status(status)]
    /\ UNCHANGED <<redisVars, arbiterVars, managerVars, mainVars>>

\* pytanque objects, as the records of their fields tagged with their class; a
\* JSON object is the record of its keys.
RouteName(v) == [enum |-> "RouteName", value |-> v]
Params(tac) == [cls |-> "RunParams", tac |-> tac]
Params_to_json(x) == [tac |-> x.tac]
Params_from_json(d) == Params(d.tac)
State(st, fin) == [cls |-> "State", st |-> st, proof_finished |-> fin]
State_to_json(x) == [st |-> x.st, proof_finished |-> x.proof_finished]
State_from_json(d) == State(d.st, d.proof_finished)
state_to_state_key(k) == <<0, k>>

QueryKwargs(route, params, timeout) ==
    [cls |-> "QueryKwargs", route_name |-> route, params |-> params, timeout |-> timeout]

QueryKwargs_to_json(x) ==
    [route_name |-> x.route_name.value, params |-> Params_to_json(x.params),
     timeout |-> x.timeout]

\* float(data["timeout"]) if data['timeout'] else None: None and 0 are both falsy.
QueryKwargs_from_json(d) ==
    QueryKwargs(RouteName(d.route_name), Params_from_json(d.params),
                IF d.timeout # None /\ d.timeout # 0 THEN d.timeout ELSE None)

\* A ParamsTree is [root, heap]: heap maps the id of each node object to its
\* fields, children and parent being references (ids) to other node objects.
RECURSIVE ParamsTree_to_json(_, _)
ParamsTree_to_json(heap, n) ==
    [state_key |-> heap[n].state_key,
     query_kwargs |-> QueryKwargs_to_json(heap[n].query_kwargs),
     children |-> [k \in 1 .. Len(heap[n].children) |->
                      ParamsTree_to_json(heap, heap[n].children[k])],
     id |-> n]

\* The node objects of the first k trees of ts, the root of each given parent p.
RECURSIVE Adopted(_, _, _)
Adopted(ts, k, p) ==
    IF k = 0 THEN [n \in {} |-> None]
    ELSE [ts[k].heap EXCEPT ![ts[k].root].parent = p] @@ Adopted(ts, k - 1, p)

RECURSIVE ParamsTree_from_json(_)
ParamsTree_from_json(d) ==
    LET kids == [k \in 1 .. Len(d.children) |-> ParamsTree_from_json(d.children[k])]
        parent == [state_key |-> d.state_key,
                   query_kwargs |-> QueryKwargs_from_json(d.query_kwargs),
                   children |-> [k \in 1 .. Len(kids) |-> kids[k].root],
                   parent |-> None]
    IN  [root |-> d.id, heap |-> (d.id :> parent) @@ Adopted(kids, Len(kids), d.id)]

MappingState_to_json(x) ==
    [mapping |-> [k \in DOMAIN x.mapping |-> State_to_json(x.mapping[k])]]
MappingState_from_json(d) ==
    [cls |-> "MappingState",
     mapping |-> [k \in DOMAIN d.mapping |-> State_from_json(d.mapping[k])]]

MappingTree_to_json(x) == [mapping |-> x.mapping]
MappingTree_from_json(d) == [cls |-> "MappingTree", mapping |-> d.mapping]

Session_to_json(x) == [id |-> x.id, pet_idx |-> x.pet_idx]
Session_from_json(d) == [cls |-> "Session", pet_idx |-> d.pet_idx, id |-> d.id]

to_json(cls, x) ==
    CASE cls = "ParamsTree" -> ParamsTree_to_json(x.heap, x.root)
      [] cls = "MappingState" -> MappingState_to_json(x)
      [] cls = "MappingTree" -> MappingTree_to_json(x)
      [] cls = "Session" -> Session_to_json(x)

from_json(cls, d) ==
    CASE cls = "ParamsTree" -> ParamsTree_from_json(d)
      [] cls = "MappingState" -> MappingState_from_json(d)
      [] cls = "MappingTree" -> MappingTree_from_json(d)
      [] cls = "Session" -> Session_from_json(d)

\* to_redis then from_redis of the record in io: cls.from_json of its to_json.
RoundTrip ==
    /\ io.fn = "input"
    /\ io' = [io EXCEPT !.fn = "from_json", !.ret = from_json(io.cls, to_json(io.cls, io.arg))]
    /\ UNCHANGED <<redisVars, arbiterVars, managerVars, mainVars>>

\* The records the functions are applied to.
CodecTimeouts == {None, 0, timeout_run}
Shapes ==
    { (1 :> <<>>),
      (1 :> <<2>>) @@ (2 :> <<>>),
      (1 :> <<2, 3>>) @@ (2 :> <<>>) @@ (3 :> <<>>),
      (1 :> <<3, 2>>) @@ (2 :> <<>>) @@ (3 :> <<>>),
      (1 :> <<2>>) @@ (2 :> <<3>>) @@ (3 :> <<>>) }
InSeq(n, q) == \E k \in 1 .. Len(q) : q[k] = n
ParentIn(ch, n) ==
    IF \E m \in DOMAIN ch : InSeq(n, ch[m])
    THEN CHOOSE m \in DOMAIN ch : InSeq(n, ch[m])
    ELSE None
ParamsTrees ==
    { [root |-> 1,
       heap |-> [n \in DOMAIN ch |->
                   [state_key |-> state_to_state_key(n),
                    query_kwargs |-> QueryKwargs(RouteName("run"), Params("t1"), tm[n]),
                    children |-> ch[n],
                    parent |-> ParentIn(ch, n)]]] :
      ch \in Shapes, tm \in [1 .. TreeNodes -> CodecTimeouts] }
KeySets == SUBSET {state_to_state_key(k) : k \in 1 .. StateKeys}
MappingStates ==
    UNION { { [cls |-> "MappingState", mapping |-> m] :
              m \in [ks -> {State(1, FALSE), State(2, TRUE)}] } : ks \in KeySets }
MappingTrees ==
    UNION { { [cls |-> "MappingTree", mapping |-> m] : m \in [ks -> 1 .. TreeNodes] } :
            ks \in KeySets }
Sessions == { [cls |-> "Session", pet_idx |-> i, id |-> s] : i \in Pets, s \in 1 .. StateKeys }
Input(cls, x) == [fn |-> "input", cls |-> cls, arg |-> x, ret |-> None]

(* ------------------------------ ParamsTree ----------------------------- *)

\* ParamsTree.from_state: a node object without children and without parent.
from_state(k) ==
    [state_key |-> state_to_state_key(k),
     query_kwargs |-> QueryKwargs(RouteName("run"), Params("t1"), None),
     children |-> <<>>, parent |-> None]

\* The node objects a program holds and the calls it has made on them: heap as
\* in a ParamsTree, adds the add_child calls so far, then the locals of find_path;
\* found is what __contains__ answers on the outcome of find_node.
Built(heap, adds) ==
    [fn |-> "built", heap |-> heap, adds |-> adds, self |-> None, key |-> None,
     stack |-> <<>>, node |-> None, path |-> <<>>, found |-> None, ret |-> None]

\* parent.add_child(child), for any two node objects the program holds.
add_child(parent, child) ==
    /\ io.fn = "built"
    /\ io.adds < MaxAdds
    /\ io' = [io EXCEPT !.adds = @ + 1,
                        !.heap = [io.heap EXCEPT
                                    ![child].parent = parent,
                                    ![parent].children =
                                        Append(io.heap[parent].children, child)]]
    /\ UNCHANGED <<redisVars, arbiterVars, managerVars, mainVars>>

\* self.find_path(state): the call, and find_node up to its loop.
find_path(self, k) ==
    /\ io.fn = "built"
    /\ io' = IF io.heap[self].state_key = state_to_state_key(k)
             THEN [io EXCEPT !.fn = "trace_ancestors", !.self = self,
                             !.key = state_to_state_key(k), !.node = self,
                             !.found = TRUE]
             ELSE [io EXCEPT !.fn = "find_node", !.self = self,
                             !.key = state_to_state_key(k),
                             !.stack = io.heap[self].children]
    /\ UNCHANGED <<redisVars, arbiterVars, managerVars, mainVars>>

\* find_node, one iteration of `while stack`, or the raise after the loop.
find_node ==
    LET n == Len(io.stack)
        node == io.stack[n]
        rest == SubSeq(io.stack, 1, n - 1)
    IN
    /\ io.fn = "find_node"
    /\ IF n = 0
       THEN io' = [io EXCEPT !.fn = "raised", !.ret = "State not found",
                             !.found = FALSE]
       ELSE IF io.heap[node].state_key = io.key
       THEN io' = [io EXCEPT !.fn = "trace_ancestors", !.node = node, !.found = TRUE]
       ELSE /\ Len(rest) + Len(io.heap[node].children) <= MaxStack
            /\ io' = [io EXCEPT !.stack = rest \o io.heap[node].children]
    /\ UNCHANGED <<redisVars, arbiterVars, managerVars, mainVars>>

\* A trace_ancestors that returns the path as it was collected, leaf first.
Reversed_leaf_first(q) == q

Reversed(q) == [k \in 1 .. Len(q) |-> q[Len(q) + 1 - k]]

\* trace_ancestors, one iteration of `while node`, or the return after the loop.
trace_ancestors ==
    /\ io.fn = "trace_ancestors"
    /\ IF io.node = None
       THEN io' = [io EXCEPT !.fn = "returned", !.ret = Reversed(io.path)]
       ELSE /\ Len(io.path) < MaxPath
            /\ io' = [io EXCEPT !.path = Append(@, io.node),
                                !.node = io.heap[io.node].parent]
    /\ UNCHANGED <<redisVars, arbiterVars, managerVars, mainVars>>

(* ------------------------------- PetClient ----------------------------- *)

\* The StateExtended values a server answers or a program passes: a State of
\* pytanque (here its st) and the generation.
StateExtendeds == [st : 1 .. ClientSt, generation : 0 .. ClientGen]

\* No state: the argument of a call that takes none, the value of a call that
\* raised.
NoStateExtended == [st |-> 0, generation |-> 0]

\* The JSON text of a state, which the client keeps in its two sets: the fields
\* of to_json in order.
to_json_string(s) == <<"st", s.st, "generation", s.generation>>

\* What the last call on the client did: the state passed, whether that state
\* had been returned since the last reset, the requests sent by all attempts,
\* and the value returned or the code of the ClientError raised.
Answer(method, arg, fresh, sent, code, ret) ==
    [method |-> method, arg |-> arg, fresh |-> fresh, sent |-> sent, code |-> code,
     ret |-> ret]

\* A PetClient after __init__; ran and fresh record the JSON texts that run has
\* returned so far and that any call has returned since the last reset.
PetClient ==
    [fn |-> "client", alive_states |-> {}, dead_states |-> {}, ran |-> {},
     fresh |-> {}, last |-> Answer("__init__", NoStateExtended, FALSE, 0, 0, NoStateExtended)]

\* _check_state raises ClientError 400 exactly when this holds.
check_state(s) == to_json_string(s) \in io.dead_states

\* The attempts that retry makes of a call that gets past check_states: it
\* stops at the first attempt that does not raise ClientError, and gives up
\* after 1 + retry of them; the call was made with retry = attempts - 1, or
\* with more when the last attempt is answered 200.
Attempts(attempts) == attempts \in 1 .. MaxRetry + 1

\* get_state_at_pos and start: on a 200 answer _reset_states, then the answered
\* state is returned without being added to alive_states.
Reset(method, s, attempts, ok, code) ==
    /\ io.fn = "client"
    /\ Attempts(attempts)
    /\ io' = IF ok
             THEN [io EXCEPT !.dead_states = io.alive_states \cup io.dead_states,
                             !.alive_states = {},
                             !.fresh = {to_json_string(s)},
                             !.last = Answer(method, NoStateExtended, FALSE, attempts, 200, s)]
             ELSE [io EXCEPT !.last = Answer(method, NoStateExtended, FALSE, attempts, code, NoStateExtended)]
    /\ UNCHANGED <<redisVars, arbiterVars, managerVars, mainVars>>

get_state_at_pos(s, attempts, ok, code) ==
    Reset("get_state_at_pos", s, attempts, ok, code)

start(s, attempts, ok, code) ==
    Reset("start", s, attempts, ok, code)

\* run: check_states on the state passed, in every attempt; then the request,
\* and on a 200 answer _add_state of the answered state.
run(state_ext, s, attempts, ok, code) ==
    /\ io.fn = "client"
    /\ Attempts(attempts)
    /\ LET fresh == to_json_string(state_ext) \in io.fresh
       IN  io' = IF check_state(state_ext)
                 THEN [io EXCEPT !.last = Answer("run", state_ext, fresh, 0, 400, NoStateExtended)]
                 ELSE IF ok
                 THEN [io EXCEPT !.alive_states = @ \cup {to_json_string(s)},
                                 !.ran = @ \cup {to_json_string(s)},
                                 !.fresh = @ \cup {to_json_string(s)},
                                 !.last = Answer("run", state_ext, fresh, attempts, 200, s)]
                 ELSE [io EXCEPT !.last = Answer("run", state_ext, fresh, attempts, code,
                                                  NoStateExtended)]
    /\ UNCHANGED <<redisVars, arbiterVars, managerVars, mainVars>>

\* goals, and alike complete_goals, premises, state_hash, ast and
\* list_notations_in_statement: check_states, then the request; the sets stay.
goals(state_ext, attempts, ok, code) ==
    /\ io.fn = "client"
    /\ Attempts(attempts)
    /\ LET fresh == to_json_string(state_ext) \in io.fresh
       IN  io' = [io EXCEPT !.last =
                    IF check_state(state_ext)
                    THEN Answer("goals", state_ext, fresh, 0, 400, NoStateExtended)
                    ELSE Answer("goals", state_ext, fresh, attempts,
                                 IF ok THEN 200 ELSE code, NoStateExtended)]
    /\ UNCHANGED <<redisVars, arbiterVars, managerVars, mainVars>>

\* An environment: handlers h, at most n calls on at most k sessions, e
\* iterations of a free-running supervisor and g replacements of a pet-server;
\* calls are issued on the sessions of the workers p.
Env(h, n, k, e, g, p) ==
    [handlers |-> h, calls |-> 0, max_calls |-> n, max_sessions |-> k,
     max_epoch |-> e, max_gen |-> g, pets |-> p]

\* inference_server deployment (gunicorn.config.py supervises), one request
\* handler, long histories.
Init ==
    /\ InitCommon
    /\ sup = [i \in Pets |-> <<"g", "poll">>]
    /\ env = Env({1}, MaxCalls, MaxSessions, MaxEpoch, MaxGen, Served)

\* inference_server deployment, NumCallers request handlers, short histories.
InitShared ==
    /\ InitCommon
    /\ sup = [i \in Pets |-> <<"g", "poll">>]
    /\ env = Env(Callers, SharedCalls, SharedSessions, SharedEpoch, SharedGen, Served)

\* rocq_ml_toolbox deployment (arbiter.py supervises).
InitArbiter ==
    /\ InitCommon
    /\ sup = [i \in Pets |-> <<"t", "listen">>]
    /\ env = Env({1}, ArbiterCalls, MaxSessions, 0, MaxGen, Served)

\* inference_server deployment, every worker of the pool supervised and used.
InitPool ==
    /\ InitCommon
    /\ sup = [i \in Pets |-> <<"g", "poll">>]
    /\ env = Env({1}, PoolCalls, PoolSessions, PoolEpoch, PoolGen, Pets)

\* inference_server deployment, NumCallers request handlers and enough sessions
\* for two of them to share a worker while a third is bound to another one.
InitPair ==
    /\ InitCommon
    /\ sup = [i \in Pets |-> <<"g", "poll">>]
    /\ env = Env(Callers, PairCalls, PairSessions, PairEpoch, PairGen, Served)

\* rocq_ml_toolbox deployment from the launch of arbiter.py by cli.py, on a redis
\* and a host that an earlier run may have left keys and pet-servers on.
InitMain ==
    /\ InitManager
    /\ io = NoIO
    /\ sup = [i \in Pets |-> <<"t", "listen">>]
    /\ env = Env({}, 0, 0, 0, MainGen, Served)
    /\ main = [Running EXCEPT !.pc = "clean"]
    /\ ram = [i \in Pets |-> [pc |-> "check", over |-> None]]
    /\ launcher = "wait"
    /\ arbiter_ready = 0
    /\ \E left \in BOOLEAN :
        /\ pet_servers = [i \in Pets |-> [inc |-> None, alive |-> left, ref |-> FALSE]]
        /\ status = [i \in Pets |-> IF left THEN "OK" ELSE Missing]
        /\ generation = [i \in Pets |-> IF left THEN 1 ELSE None]

\* Request handlers that only serve /login.
InitCreate ==
    /\ InitCommon
    /\ sup = [i \in Pets |-> <<"g", "poll">>]
    /\ env = Env(Callers, 0, CreateSessions, 0, 0, {})

\* A redis in any state of the status keys, and one record to apply a function to.
InitPure ==
    /\ InitManager
    /\ InitRunning
    /\ pet_servers = [i \in Pets |-> [inc |-> 0, alive |-> TRUE, ref |-> TRUE]]
    /\ generation = [i \in Pets |-> 0]
    /\ status \in [Pets -> RedisStatus]
    /\ sup = [i \in Pets |-> <<"g", "poll">>]
    /\ env = Env({}, 0, 0, 0, 0, {})
    /\ \/ \E x \in ParamsTrees : io = Input("ParamsTree", x)
       \/ \E x \in MappingStates : io = Input("MappingState", x)
       \/ \E x \in MappingTrees : io = Input("MappingTree", x)
       \/ \E x \in Sessions : io = Input("Session", x)

\* Node objects made by from_state, or a tree read back by from_json, on which
\* the program calls add_child and then find_path.
InitTree ==
    /\ InitManager
    /\ InitRunning
    /\ pet_servers = [i \in Pets |-> [inc |-> 0, alive |-> TRUE, ref |-> TRUE]]
    /\ generation = [i \in Pets |-> 0]
    /\ status = [i \in Pets |-> "OK"]
    /\ sup = [i \in Pets |-> <<"g", "poll">>]
    /\ env = Env({}, 0, 0, 0, 0, {})
    /\ \/ \E ks \in [1 .. TreeNodes -> 1 .. StateKeys] :
            io = Built([n \in 1 .. TreeNodes |-> from_state(ks[n])], 0)
       \/ \E x \in ParamsTrees :
            io = Built(ParamsTree_from_json(ParamsTree_to_json(x.heap, x.root)).heap,
                       MaxAdds - 1)

NextTree ==
    \/ \E parent, child \in DOMAIN io.heap : add_child(parent, child)
    \/ \E self \in DOMAIN io.heap, k \in 1 .. TreeNodes + 1 : find_path(self, k)
    \/ find_node
    \/ trace_ancestors

\* A program that holds one PetClient and calls it with states of its choice,
\* against a server that answers a state or an error.
InitClient ==
    /\ InitManager
    /\ InitRunning
    /\ pet_servers = [i \in Pets |-> [inc |-> 0, alive |-> TRUE, ref |-> TRUE]]
    /\ generation = [i \in Pets |-> 0]
    /\ status = [i \in Pets |-> "OK"]
    /\ sup = [i \in Pets |-> <<"g", "poll">>]
    /\ env = Env({}, 0, 0, 0, 0, {})
    /\ io = PetClient

NextClient ==
    \E s \in StateExtendeds, attempts \in 1 .. MaxRetry + 1, ok \in BOOLEAN,
       code \in {400, 500} :
        \/ get_state_at_pos(s, attempts, ok, code)
        \/ start(s, attempts, ok, code)
        \/ \E state_ext \in StateExtendeds : run(state_ext, s, attempts, ok, code)
        \/ \E state_ext \in StateExtendeds : goals(state_ext, attempts, ok, code)

NextPure ==
    \/ health
    \/ RoundTrip

Next ==
    \/ \E i \in Served : Supervisor(i)
    \/ \E i \in Served : PetCrash(i)
    \/ \E i \in Served : LockExpire(i)
    \/ \E c \in Callers : Login(c)
    \/ \E c \in Callers : create_session(c)
    \/ \E c \in Callers : Call(c)

NextPool ==
    \/ \E i \in Pets : Supervisor(i)
    \/ \E i \in Pets : PetCrash(i)
    \/ \E i \in Pets : LockExpire(i)
    \/ \E c \in Callers : Login(c)
    \/ \E c \in Callers : create_session(c)
    \/ \E c \in Callers : Call(c)

\* The arbiter process on its own: main, the supervisor and RAM-monitor threads
\* of the served worker, the probes of its clients, and the launcher.
NextMain ==
    \/ MainClean
    \/ kill_all_pet
    \/ StartSpawn
    \/ StartSettle
    \/ Signal
    \/ _shutdown
    \/ WaitArbiter
    \/ \E i \in Served : monitor_redis_for_restarts(i)
    \/ \E i \in Served : monitor_ram(i)
    \/ \E i \in Served : PetCrash(i)
    \/ \E i \in Served : Probe(i)

NextCreate ==
    \/ \E c \in Callers : Login(c)
    \/ \E c \in Callers : create_session(c)
    \/ \E c \in Callers : Return(c)

\* With arbiter.py nothing advances pet_monitor_epoch, so a call never gets past
\* ensure_pet_ok: the steps up to there are the ones a call can take.
NextArbiter ==
    \/ \E i \in Served : monitor_redis_for_restarts(i)
    \/ \E i \in Served : monitor_ram(i)
    \/ \E i \in Served : PetCrash(i)
    \/ \E i \in Served : Probe(i)
    \/ \E c \in Callers : Login(c)
    \/ \E c \in Callers : create_session(c)
    \/ \E c \in Callers : Issue(c)
    \/ \E c \in Callers : acquire_pet_lock(c)
    \/ \E c \in Callers : OkPollStatus(c)
    \/ \E c \in Callers : OkPollEpoch(c)
    \/ \E c \in Callers : OkTimeout(c)
    \/ \E c \in Callers : Return(c)

\* The supervisor thread keeps running, probes keep being published, a Popen
\* that is retried does not fail forever, and a finished call answers.
Fairness ==
    /\ \A c \in Callers : WF_vars(Return(c))
    /\ \A i \in Served :
        /\ WF_vars(Probe(i))
        /\ WF_vars(Listen(i) \/ Poll(i) \/ React(i) \/ Reply(i))
        /\ WF_vars(RestartStop(i) \/ RestartGen(i) \/ RestartOk(i))
        /\ WF_vars(RestartSpawnFails(i) \/ RestartSpawn(i))
        /\ SF_vars(RestartSpawn(i))

Spec == Init /\ [][Next]_vars

SpecShared == InitShared /\ [][Next]_vars

SpecArbiter == InitArbiter /\ [][NextArbiter]_vars /\ Fairness

SpecPool == InitPool /\ [][NextPool]_vars

SpecPair == InitPair /\ [][Next]_vars

SpecMain == InitMain /\ [][NextMain]_vars

SpecCreate == InitCreate /\ [][NextCreate]_vars

SpecPure == InitPure /\ [][NextPure]_vars

\* The interpreter keeps executing the loop it is in.
SpecClient == InitClient /\ [][NextClient]_vars

SpecTree == InitTree /\ [][NextTree]_vars /\ WF_vars(find_node) /\ WF_vars(trace_ancestors)
(* ------------------------------ properties ----------------------------- *)

\* The calls whose replay RPC or requested RPC is in flight on worker i.
FacingWorker(i) == {c \in Callers : pc[c] \in InRpc /\ req[c].pet = i}

\* C1: at any instant at most one call is in its worker-facing part (a replay
\* RPC of check_session or the requested RPC) for a given worker index, also
\* when the TTL of the lock runs out under its holder.
C1_OneCallPerWorker == \A i \in Pets : Cardinality(FacingWorker(i)) <= 1

\* Handler c sends the requested RPC of a state-consuming call in this step, over
\* a connection to the running subprocess.
SendsState(c) ==
    /\ pc[c] # "rpc"
    /\ pc'[c] = "rpc"
    /\ req'[c].route \in StateRoutes
    /\ pet_servers[req'[c].pet].alive
    /\ req'[c].sent_to = pet_servers[req'[c].pet].inc

\* C2: whenever a state-consuming call passes a state to worker i, the state was
\* produced by the running subprocess of i: an older state was replaced by its
\* fresh image before the RPC, or the call failed.  Both arguments of
\* state_equal count.
C2_OnlyFreshStatesSent ==
    [][\A c \in Callers :
          SendsState(c) =>
              \A h \in {req'[c].arg} \cup
                       (IF req'[c].route = "state_equal" THEN {req'[c].arg2} ELSE {}) :
                  h.p = pet_servers[req'[c].pet].inc]_vars

\* The states whose producing path is known: a root request followed by tactics.
Rooted(h) == h.sem # <<>> /\ h.sem[1] \in {"pos", "thm"}

\* C3: the image replay records for a state s denotes the root request followed
\* by the tactics on the path that originally produced s, for every recorded
\* history.
C3_ReplayImageDenotesPath ==
    \A s \in SessionIds :
        \A h \in DOMAIN sessions[s].mapping_state :
            Rooted(h) => sessions[s].mapping_state[h].sem = h.sem

\* C4: a completed call that returns a state returns it tagged with the
\* generation of the session's worker that the call read under the lock.
C4_ReturnedTagIsObserved ==
    \A c \in Callers :
        (pc[c] = "done" /\ req[c].error = "none" /\ req[c].ret # NoState)
            => req[c].ret.g = req[c].gen

\* C5: a call that acquired pet_lock:i no longer holds it when it returns or
\* raises, whichever step ended it.
C5_LockReleasedAtEnd ==
    \A c \in Callers : pc[c] \in {"done", "idle"} => \A i \in Pets : lock[i] # c

C5_Witness ==
    \E c \in Callers :
        pc[c] = "done" /\ req[c].cause = "alarm" /\ lock[req[c].pet] = NoOne

\* Handler c leaves ensure_pet_ok in this step because the wait succeeded.
WaitReturns(c) == pc[c] = "wait_epoch" /\ pc'[c] \notin {"wait_ok", "wait_epoch"}

\* C6: when the wait of a call for worker i returns, status[i] is OK and the
\* supervisor has run one complete iteration that started after the wait
\* started: if the supervisor was about to bump the epoch when the wait
\* started, that bump closes an older iteration, so a second one is needed.
C6_WaitCoversOneIteration ==
    [][\A c \in Callers :
          WaitReturns(c) =>
              /\ status[req[c].pet] = "OK"
              /\ epoch[req[c].pet] >= req[c].start_epoch + 1
                                        + (IF req[c].bump_due THEN 1 ELSE 0)]_vars

\* C7: generation[i] never decreases; it changes only in the step of a restart
\* that follows the spawn of the replacement, and then by exactly 1, so that it
\* counts the replacements spawned.
C7_GenerationCountsSpawns ==
    /\ [][\A i \in Pets :
             generation'[i] # generation[i] =>
                 /\ generation'[i] = generation[i] + 1
                 /\ sup[i][2] = "gen"]_vars
    /\ [](\A i \in Pets :
             generation[i] = IF sup[i][2] = "gen" THEN pet_servers[i].inc - 1
                             ELSE pet_servers[i].inc)

C7_Witness == \E i \in Pets : generation[i] = 2 /\ status[i] = "OK"

\* The restart flag of worker i is up and the restart that answers it has not
\* bumped the generation yet.
RestartPending(i) == status[i] = "RESTART_NEEDED" /\ sup[i][2] # "ok"

\* C8: once status[i] is RESTART_NEEDED and probes keep arriving, status[i] is
\* eventually OK again with a larger generation; a restart that fails part-way
\* leaves status[i] RESTART_NEEDED and the supervisor listening for the next
\* probe.
C8_RestartNeededLeadsToOk ==
    /\ \A i \in Pets : \A g \in Generations :
          (RestartPending(i) /\ generation[i] = g /\ g < env.max_gen)
              ~> (status[i] = "OK" /\ generation[i] > g)
    /\ [][\A i \in Pets :
             (sup[i][2] = "spawn" /\ sup'[i][2] \notin {"spawn", "gen"}) =>
                 /\ status'[i] = "RESTART_NEEDED"
                 /\ sup'[i] = <<"t", "listen">>]_vars

C8_Witness ==
    \E i \in Pets : sup[i] = <<"t", "reply">> /\ status[i] = "OK" /\ generation[i] = 2

\* C9: a call whose worker RPC exceeded its deadline, by the alarm of the
\* Session Manager or by the worker's timeout error code, has set status[i] to
\* RESTART_NEEDED and fails as unresponsive.
C9_DeadlineRequestsRestart ==
    \A c \in Callers :
        (pc[c] = "done" /\ req[c].cause \in {"alarm", "worker_timeout"})
            => /\ status[req[c].pet] = "RESTART_NEEDED"
               /\ req[c].error = "UnresponsiveError"

\* C10: when the worker answers with a structured error other than timeout, the
\* error is surfaced as it is and the step leaves status, generation, the cached
\* connection and the recorded history of the session unchanged.
C10_ProtocolErrorChangesNothing ==
    [][\A c \in Callers :
          (pc'[c] = "done" /\ pc[c] # "done" /\ req'[c].cause = "protocol") =>
              /\ req'[c].error = "PetanqueError"
              /\ status' = status
              /\ generation' = generation
              /\ pytanques'[c] = pytanques[c]
              /\ worker_generations'[c] = worker_generations[c]
              /\ sessions'[req'[c].sid].tactics = sessions[req'[c].sid].tactics]_vars

C10_Witness == \E c \in Callers : pc[c] = "done" /\ req[c].cause = "protocol"

\* The ways a call fails that are neither an unknown session or missing key nor
\* an error answer of the worker.
OtherFailures == {"wait_timeout", "unreachable", "forced", "alarm", "broken", "lock_error"}

C12_UnknownSessionTouchesNothing ==
    [][\A c \in Callers :
          (pc'[c] = "done" /\ pc[c] # "done" /\ req'[c].cause = "unknown_session") =>
              /\ handle_error(req'[c].error) = "not_found"
              /\ pc[c] = "idle"
              /\ lock' = lock
              /\ lockTtl' = lockTtl
              /\ pytanques' = pytanques
              /\ status' = status]_vars

C12_Witness ==
    \E c \in Callers :
        pc[c] = "done" /\ req[c].cause = "unknown_session" /\ req[c].error = "KeyError"

\* C13: a call does not stay blocked on pet_lock:i beyond baseline + epsilon:
\* a call that was already waiting when the holder sent an RPC with a longer
\* deadline has stopped waiting by the time that deadline's alarm fires.
C13_LockWaitIsBounded ==
    \A h \in Callers :
        (pc[h] = "done" /\ req[h].cause = "alarm")
            => \A d \in req[h].waiting : pc[d] # "wait_lock"

\* C16: the only change of status[i] a Session Manager step makes is from OK to
\* RESTART_NEEDED; it never overwrites RESTARTING.
C16_ManagerOnlyFlagsOk ==
    [][\A i \in Pets :
          (status'[i] # status[i] /\ \E c \in Callers : pc'[c] # pc[c]) =>
              /\ status[i] = "OK"
              /\ status'[i] = "RESTART_NEEDED"]_vars

\* C18: a call whose timeout is zero or negative is rejected before anything is
\* done for it, so no worker RPC is ever in flight for such a call.
C18_NonPositiveTimeoutRejected ==
    \A c \in Callers : pc[c] \in InRpc => req[c].timeout > 0

\* C17: when a call fails, at whichever step, the persisted history of its
\* session is what it was when the call loaded the session.
C17_FailedCallKeepsHistory ==
    \A c \in Callers :
        (pc[c] = "done" /\ req[c].error # "none" /\ req[c].cause # "unknown_session")
            => sessions[req[c].sid].tactics = req[c].before

\* C14: under any interleaving of create_session calls the k-th session saved
\* carries the k-th value of the counter and is assigned worker (k mod N), and
\* the numbers of sessions of two workers differ by at most one.
C14_SessionsSpreadRoundRobin ==
    LET on(i) == Cardinality({s \in SessionIds :
                     sessions[s] # NoSession /\ sessions[s].pet_idx = i})
    IN  /\ \A s \in SessionIds :
               sessions[s] # NoSession => sessions[s].pet_idx = s % NumPet
        /\ \A i, j \in Pets : on(i) - on(j) <= 1

\* Two handlers inside create_session at once, one blocked on session_lock,
\* after the counter has gone round the pool.
C14_Witness ==
    \E c, d \in Callers :
        /\ pc[c] = "cs_release"
        /\ pc[d] = "cs_lock"
        /\ req[c].sid > NumPet
        /\ sessions[req[c].sid].pet_idx = req[c].sid % NumPet

\* C15: pet_status returns True exactly when status[i] is OK for every worker
\* index i of the pool; a missing key or any other value for some i makes it
\* False.
C15_PetStatusIffAllOk ==
    io.fn = "pet_status" => (io.ret <=> \A i \in Pets : status[i] = "OK")

\* health has answered False on a pool whose first worker is OK and whose last
\* worker has no status key.
C15_Witness ==
    /\ io.fn = "pet_status"
    /\ io.ret = FALSE
    /\ status[0] = "OK"
    /\ status[NumPet - 1] = Missing

\* C19: from_json(to_json(x)) equals x for every Session, ParamsTree (any shape,
\* any timeout including 0 and None), MappingState and MappingTree x.
C19_RoundTripIsIdentity ==
    io.fn = "from_json" => io.ret = io.arg

\* C20: the pet_idx of a session record never changes once create_session has
\* saved it, whatever calls, failures, replays and restarts follow, and a call
\* of the session is in its worker-facing part only on that worker.
C20_SessionStaysOnItsWorker ==
    [][/\ \A s \in SessionIds :
              sessions[s] # NoSession => sessions'[s].pet_idx = sessions[s].pet_idx
       /\ \A c \in Callers :
              pc'[c] \in InRpc => req'[c].pet = sessions'[req'[c].sid].pet_idx]_vars

\* A call of the second session is at its worker, which has been replaced since
\* the session was created, while the first session has a saved history on the
\* other worker.
C20_Witness ==
    \E c \in Callers :
        /\ pc[c] \in InRpc
        /\ req[c].sid = 2
        /\ req[c].pet = 2 % NumPet
        /\ generation[2 % NumPet] > 0
        /\ sessions[1].pet_idx = 1 % NumPet
        /\ sessions[1].filepath # FALSE

\* A request handler took a step of the call it is serving.
Moved(c) == pc'[c] # pc[c]

\* A step that changes the record of session s is a step of a call on s, and a
\* step of a call leaves the lock, the status and the cache of every worker but
\* the one its session is bound to alone.
OwnKeysOnly ==
    /\ \A s \in SessionIds :
          sessions'[s] # sessions[s] => \E c \in Callers : Moved(c) /\ req'[c].sid = s
    /\ \A c \in Callers : \A j \in Pets :
          (Moved(c) /\ pc[c] \notin InCreate \cup {"idle"} /\ req[c].pet # j)
              => /\ lock'[j] = lock[j]
                 /\ lockTtl'[j] = lockTtl[j]
                 /\ status'[j] = status[j]
                 /\ cache_state'[j] = cache_state[j]

\* Every entry of a persisted history was appended by a call on that session.
OwnHistory ==
    \A s \in SessionIds :
        \A k \in 1 .. Len(sessions[s].tactics) : sessions[s].tactics[k].by = s

\* Calls of two sessions bound to one worker are never in their worker-facing
\* part together.
SessionsSerialized ==
    \A c, d \in Callers :
        (pc[c] \in InRpc /\ pc[d] \in InRpc /\ req[c].pet = req[d].pet)
            => req[c].sid = req[d].sid

\* C21: a call on session A reads and writes no persisted record but A's: a
\* record changes only in a step of a call on that session, the keys of a worker
\* are touched only by calls of the sessions bound to it, the calls of two
\* sessions that share a worker serialize, and every history holds only entries
\* of its own session's calls.
C21_SessionsAreIsolated ==
    /\ [][OwnKeysOnly]_vars
    /\ [](OwnHistory /\ SessionsSerialized)

\* The part of C21 about records and histories alone.
C21_RecordsAreIsolated == [][OwnKeysOnly]_vars /\ []OwnHistory

\* The supervisor of worker i terminates the subprocess in this step.
Replaces(i) == sup[i][2] = "stop" /\ sup'[i][2] = "spawn"

\* C22: when the RAM monitor finds worker i over the limit it sets status[i] to
\* RESTART_NEEDED and nothing else, the supervisor that reads RESTART_NEEDED on a
\* probe restarts the worker, and each such event costs one generation: the
\* supervisor only ever replaces a subprocess that exited or that the monitor
\* found over the limit, however the monitor and the supervisor interleave.
C22_OneRestartPerRamEvent ==
    [][\A i \in Served :
          /\ (ram[i].pc = "set" /\ ram'[i].pc = "check")
                => /\ status'[i] = "RESTART_NEEDED"
                   /\ generation' = generation
                   /\ pet_servers' = pet_servers
          /\ (sup[i] = <<"t", "react">> /\ sup'[i] # sup[i] /\ status[i] = "RESTART_NEEDED")
                => sup'[i] = <<"t", "stop">>
          /\ Replaces(i)
                => \/ ~pet_servers[i].alive
                   \/ ram[i].over = pet_servers[i].inc]_vars

\* No core key is left in redis: status, generation, lock, monitor epoch,
\* session records, counters.
NoCoreKey ==
    /\ \A i \in Pets :
          /\ status[i] = Missing
          /\ generation[i] = None
          /\ lock[i] = NoOne
          /\ epoch[i] = 0
    /\ \A s \in SessionIds : sessions[s] = NoSession
    /\ assigned = 0

\* C23: once the shutdown sequence has completed and the arbiter has exited, no
\* pet-server it spawned is running and no core key is left in redis, whatever
\* its supervisor threads were doing when the signal arrived.
C23_ShutdownLeavesNothing ==
    main.pc = "exited"
        => /\ \A i \in Pets : ~pet_servers[i].alive
           /\ NoCoreKey

\* Every worker has been given status OK and a generation by the start sequence.
AllSettled == \A i \in Pets : status[i] # Missing /\ generation[i] # None

\* C24: the start sequence sets arbiter_ready to 1 once every worker has status
\* OK and generation 0 and not before, so an arbiter that is past its start
\* sequence has set it, the launcher that waits for it goes on instead of giving
\* up, and it never goes on while some worker has no status.
C24_ReadyAfterAllOk ==
    /\ arbiter_ready = 1 => AllSettled \/ main.stop
    /\ main.pc = "running" => arbiter_ready = 1
    /\ launcher # "TimeoutError"
    /\ launcher = "probing" => arbiter_ready = 1

\* C25: for every probe the supervisor of worker i receives, it publishes one
\* reply, after the crash poll and any restart of that iteration have finished,
\* and then increments monitor_epoch[i]: every iteration ends with its reply, and
\* the epoch counts the iterations completed.
C25_ReplyThenEpoch ==
    [][\A i \in Served :
          /\ (sup[i] # <<"t", "listen">> /\ sup'[i] = <<"t", "listen">>)
                => sup[i] = <<"t", "reply">>
          /\ (sup[i] # <<"t", "reply">> /\ sup'[i] = <<"t", "reply">>)
                => \/ sup[i] = <<"t", "react">> /\ status[i] # "RESTART_NEEDED"
                   \/ sup[i] = <<"t", "ok">> /\ status'[i] = "OK"
          /\ (sup[i] = <<"t", "reply">> /\ sup'[i] = <<"t", "listen">>)
                => epoch'[i] = epoch[i] + 1]_vars

\* C26: the subprocess of worker i is replaced only by the restart of its
\* supervisor, one replacement at a time, and status[i] is written OK only by
\* the step that ends a restart, after the generation was incremented for the
\* replacement: whenever status[i] is OK, generation[i] is the number of
\* replacements of the subprocess since the start.
C26_OkCarriesCurrentGeneration ==
    /\ [][\A i \in Pets :
             /\ pet_servers'[i].inc # pet_servers[i].inc
                   => /\ sup[i][2] = "spawn" /\ sup'[i][2] = "gen"
                      /\ pet_servers'[i].inc = pet_servers[i].inc + 1
                      /\ \A c \in Callers : pc'[c] = pc[c]
             /\ (status'[i] = "OK" /\ status[i] # "OK")
                   => /\ sup[i][2] = "ok"
                      /\ generation'[i] = pet_servers'[i].inc]_vars
    /\ [](\A i \in Pets : status[i] = "OK" => generation[i] = pet_servers[i].inc)

C26_Witness ==
    \E i \in Pets :
        /\ sup[i] = <<"t", "listen">>
        /\ status[i] = "OK"
        /\ pet_servers[i] = [inc |-> 2, alive |-> TRUE, ref |-> TRUE]
        /\ generation[i] = 2

\* Handler c writes the record of the session of its call in this step.
Saves(c) ==
    /\ Moved(c)
    /\ pc[c] \notin InCreate \cup {"idle"}
    /\ sessions'[req[c].sid] # sessions[req[c].sid]

\* C27: writes to the history of one session are serialized: a call saves over
\* the history it loaded under the lock, which is still the persisted one, so
\* that the entries of concurrent calls that both succeed are all kept, in the
\* order in which the calls held the lock; a run appends its entry to what is
\* persisted.
C27_HistoryWritesSerialized ==
    [][\A c \in Callers :
          Saves(c) =>
              /\ sessions[req[c].sid].tactics = req[c].before
              /\ (req[c].route = "run" /\ pc'[c] = "saved")
                    => /\ Len(sessions'[req[c].sid].tactics)
                            = Len(sessions[req[c].sid].tactics) + 1
                       /\ SubSeq(sessions'[req[c].sid].tactics, 1,
                                 Len(sessions[req[c].sid].tactics))
                            = sessions[req[c].sid].tactics]_vars

\* C28: every write of a call to the record of its session is made while the
\* call holds the lock of the worker the session is bound to.
C28_WritesUnderWorkerLock ==
    [][\A c \in Callers :
          Saves(c) => lock[sessions[req[c].sid].pet_idx] = c]_vars

\* Handler c sends a worker RPC in this step: the first of its call, the next
\* replay step, or the requested one.
SendsRpc(c) ==
    /\ pc'[c] \in InRpc
    /\ pc'[c] # pc[c] \/ req'[c].k # req[c].k

\* C29: the connection _get_worker hands to a call was opened under the current
\* generation of the worker - a cached one is reused only if the generation
\* recorded with it is the current one - so no RPC is sent over a connection
\* opened to a replaced subprocess; and a call that sent the kill signal leaves
\* no cached connection for the worker.
C29_NoRpcToReplacedWorker ==
    [][\A c \in Callers :
          LET i == req'[c].pet IN
          /\ (pc[c] = "wait_epoch" /\ pc'[c] \in InRpc)
                => /\ worker_generations'[c][i] = generation[i]
                   /\ pytanques'[c][i] # None
          /\ SendsRpc(c) => req'[c].sent_to = pet_servers[i].inc
          /\ (Moved(c) /\ pc'[c] = "done" /\ req'[c].kill)
                => pytanques'[c][req[c].pet] = None]_vars

\* C30: wherever a call that holds the lock of its worker blocks - waiting for
\* the worker to be OK, in a replay RPC, in the requested RPC - the step has a
\* deadline, and the TTL the call last set on the lock is that deadline plus
\* timeout_eps: the lock cannot expire before the deadline fires.
C30_TtlCoversDeadline ==
    \A c \in Callers :
        (pc[c] \in InRpc \cup {"wait_ok", "wait_epoch"} /\ lock[req[c].pet] = c)
            => /\ Deadline(c) > 0
               /\ lockTtl[req[c].pet] = Deadline(c) + timeout_eps

\* The blocking points of check_session: its replay RPCs.
InReplay == {"rp_root", "rp_run"}

\* The ways a worker RPC ends without a result.
RpcFailures == {"protocol", "worker_timeout", "alarm", "broken"}

\* In this step the last worker.run of the replay of handler c returns.
ReplayCompletes(c) ==
    /\ pc[c] = "rp_run"
    /\ req[c].k = Len(req[c].sess.tactics)
    /\ req'[c] # req[c]
    /\ req'[c].cause \notin RpcFailures

\* In this step the replay of handler c fails before its last worker.run returned.
ReplayFails(c) ==
    /\ pc[c] \in InReplay
    /\ pc'[c] = "done"
    /\ req'[c].cause \in RpcFailures

\* C31: when a replay on generation g completes, the persisted session records
\* generation g and its mapping_state maps every state of its history to an image
\* tagged g; when a replay fails part-way the persisted session is left as it
\* was, with the old generation and the old mapping, and a call that enters
\* check_session's replay starts it at the first entry of the history.
C31_ReplayCompletesOrChangesNothing ==
    [][\A c \in Callers :
        LET s == sessions'[req[c].sid] IN
        /\ ReplayCompletes(c) =>
              /\ s.generation = req[c].gen
              /\ \A k \in 1 .. Len(s.tactics) :
                    /\ s.tactics[k].st \in DOMAIN s.mapping_state
                    /\ s.mapping_state[s.tactics[k].st].g = req[c].gen
        /\ ReplayFails(c) => sessions' = sessions
        /\ pc[c] \notin InReplay /\ pc'[c] \in InReplay => req'[c].k <= 1]_vars

\* A replay has completed on generation 1 and the next one, on generation 2, has
\* failed part-way: the session is still the one the first replay saved.
C31_Witness ==
    \E c \in Callers :
        /\ pc[c] = "done"
        /\ req[c].cause \in RpcFailures
        /\ req[c].route \in StateRoutes
        /\ req[c].gen = 2
        /\ sessions[req[c].sid].generation = 1
        /\ sessions[req[c].sid].mapping_state # EmptyMap

\* The nodes on the recorded path from the root to the state h: the root request
\* and one node per tactic applied since.
PathLength(h) == Len(h.sem)

\* C32 (one pass): once the replay of a call is over the call sends no replay RPC
\* again.
OneReplayPass ==
    [][\A c \in Callers :
          pc[c] \in {"rpc", "saved"} => pc'[c] \notin InReplay]_vars

\* C32 (no replay when current): a call enters the replay only for a session
\* whose recorded generation is not the generation of its worker.
ReplayOnlyWhenOutdated ==
    [][\A c \in Callers :
          pc[c] \notin InReplay /\ pc'[c] \in InReplay =>
              sessions[req'[c].sid].generation # generation[req'[c].pet]]_vars

\* C32 (as many RPCs as the path is long): the k-th worker.run of a replay is
\* sent only while k does not exceed the length of the path from the root to
\* the submitted state.
ReplayWalksThePath ==
    [](\A c \in Callers :
          (pc[c] = "rp_run" /\ req[c].st.sem[1] = "pos") =>
              req[c].k <= PathLength(req[c].st))

\* C32: after any number of restarts the next state-consuming call performs one
\* replay pass whose worker RPCs are as many as the recorded path from the root
\* to the submitted state is long, and a call on a session whose generation is
\* current performs no replay RPC.
C32_OneReplayOfThePath ==
    OneReplayPass /\ ReplayOnlyWhenOutdated /\ ReplayWalksThePath

\* C33: find_node, trace_ancestors and find_path terminate on every structure,
\* also one whose children or parent links contain a cycle: a path computation
\* that has started returns or raises.
C33_PathComputationTerminates ==
    (io.fn \in {"find_node", "trace_ancestors"}) ~> (io.fn \in {"returned", "raised"})

\* C34: within one call the requested RPC is sent at most once and the replay is
\* attempted at most once, each entry of the history being run once: a call
\* leaves the requested RPC only towards its end, a replay only moves on to its
\* next entry, and the step in which anything fails ends the call with the error.
C34_NoRetryWithinACall ==
    [][\A c \in Callers :
        /\ pc[c] = "rpc" =>
              \/ pc'[c] \in {"saved", "done"}
              \/ pc'[c] = "rpc" /\ req'[c] = req[c]
        /\ pc[c] = "saved" => pc'[c] \in {"saved", "done"}
        /\ pc[c] = "done" => pc'[c] \in {"done", "idle"}
        /\ (pc[c] \in InReplay /\ pc'[c] \in InReplay) =>
              \/ pc'[c] = pc[c] /\ req'[c] = req[c]
              \/ pc'[c] = "rp_run" /\ req'[c].k = req[c].k + 1
        /\ (req[c].error = "none" /\ req'[c].error # "none") => pc'[c] = "done"]_vars

\* A run whose requested RPC failed has answered with the error, its tactic not
\* in the history.
C34_Witness ==
    \E c \in Callers :
        /\ pc[c] = "done"
        /\ req[c].route = "run"
        /\ req[c].cause \in {"worker_timeout", "broken"}
        /\ req[c].gen = sessions[req[c].sid].generation
        /\ \A k \in 1 .. Len(sessions[req[c].sid].tactics) :
              sessions[req[c].sid].tactics[k].tac # req[c].tac

\* In this step restart_single_pet_server terminates the running subprocess of
\* index i.
TerminatesRunning(i) ==
    /\ sup[i][2] = "stop"
    /\ sup'[i][2] = "spawn"
    /\ pet_servers[i].alive
    /\ ~pet_servers'[i].alive

\* C35: the arbiter terminates the subprocess of worker i only while no call has
\* a worker RPC in flight on i, i.e. while pet_lock:i is free or its holder is
\* still waiting for OK; a call that asked for the restart has ended by then.
C35_NoRestartUnderAnRpc ==
    [][\A i \in Pets : TerminatesRunning(i) => FacingWorker(i) = {}]_vars

\* In this step _get_state_at_pos returns to handler c: in get_state_at_pos
\* (whose op goes on to save the session) or in check_session (whose replay
\* goes on from the root).
GetStateReturns(c) ==
    \/ /\ pc[c] \in {"wait_epoch", "rpc"}
       /\ pc'[c] = "saved"
       /\ req'[c].route = "get_state_at_pos"
    \/ /\ pc[c] \in {"wait_epoch", "rp_root"}
       /\ req'[c].k = 1
       /\ req[c].k = 0
       /\ req'[c].cur # NoState

\* What _get_state_at_pos returned in that step.
GotState(c) == IF pc'[c] = "saved" THEN req'[c].ret ELSE req'[c].cur

\* C36: the state _get_state_at_pos returns was produced by the subprocess of
\* pet_idx that is running when it returns; a cache_state entry stored by an
\* earlier subprocess is never returned.
C36_CachedStateIsOfRunningProcess ==
    [][\A c \in Callers :
          GetStateReturns(c) => GotState(c).p = pet_servers[req'[c].pet].inc]_vars

\* In this step the call of handler c on worker i ends: its finally clause runs
\* lock.release().
Releases(c, i) ==
    /\ pc[c] \notin {"idle", "done", "wait_lock"} \cup InCreate
    /\ req[c].pet = i
    /\ pc'[c] = "done"

\* C37: the release of a call whose lock on worker i expired and was acquired by
\* another call leaves pet_lock:i to that call, and the first call ends as it
\* would have ended: with its result, or with the error it already had.
C37_ReleaseSparesOtherHolder ==
    [][\A c \in Callers, i \in Pets :
          (Releases(c, i) /\ lock[i] \notin {c, NoOne}) =>
              /\ lock'[i] = lock[i]
              /\ req'[c].cause # "lock_error"]_vars

\* A call has ended after its lock had expired, and the call that acquired the
\* lock since then still holds it and is at work.
C37_Witness ==
    \E c, d \in Callers :
        /\ c # d
        /\ pc[c] = "done"
        /\ req[c].route \in Routes
        /\ lock[req[c].pet] = d
        /\ req[d].pet = req[c].pet
        /\ pc[d] \in {"wait_ok", "wait_epoch"} \cup InRpc

\* How often node n occurs in the children list q.
Count(n, q) == Cardinality({k \in 1 .. Len(q) : q[k] = n})

\* Following the parent links from n for at most fuel steps ends at a node
\* without parent.
RECURSIVE ReachesRoot(_, _, _)
ReachesRoot(heap, n, fuel) ==
    \/ heap[n].parent = None
    \/ fuel > 0 /\ ReachesRoot(heap, heap[n].parent, fuel - 1)

\* The structures add_child and from_json build when every node is made the
\* child of at most one node and of none of its descendants: each node is in
\* the children of its parent once, in no other list, and the parent links end.
IsForest(heap) ==
    \A n \in DOMAIN heap :
        /\ ReachesRoot(heap, n, Cardinality(DOMAIN heap))
        /\ \A q \in DOMAIN heap :
              Count(n, heap[q].children) = IF heap[n].parent = q THEN 1 ELSE 0

\* The nodes of the tree under node n: n and the children of its nodes.
RECURSIVE Under(_, _, _)
Under(heap, n, fuel) ==
    {n} \cup (IF fuel = 0 THEN {}
              ELSE UNION {Under(heap, heap[n].children[k], fuel - 1) :
                            k \in 1 .. Len(heap[n].children)})

\* C38: on a tree built by add_child or from_json, find_path returns the nodes
\* from the node without parent down to a node of the tree of self with the
\* key of the state, each node the parent of the next, when such a node exists;
\* when none exists it raises and the containment test answers False.
C38_FindPathIsRootToNode ==
    LET heap == io.heap
        path == io.ret
        keyed == {n \in Under(heap, io.self, Cardinality(DOMAIN heap)) :
                    heap[n].state_key = io.key}
    IN  (io.fn \in {"returned", "raised"} /\ IsForest(heap)) =>
            /\ io.fn = "returned" <=> keyed # {}
            /\ io.found = (keyed # {})
            /\ io.fn = "returned" =>
                  /\ Len(path) >= 1
                  /\ heap[path[1]].parent = None
                  /\ path[Len(path)] \in keyed
                  /\ \A k \in 1 .. Len(path) - 1 : heap[path[k + 1]].parent = path[k]

\* find_path has returned a path of three nodes, called on a node that is not
\* the root of its tree.
C38_Witness ==
    /\ io.fn = "returned"
    /\ IsForest(io.heap)
    /\ Len(io.ret) = 3
    /\ io.self # io.ret[1]

\* After a successful get_state_at_pos or start every state run has returned
\* is dead.
ResetKillsRunStates ==
    (io.fn = "client" /\ io.last.method \in {"get_state_at_pos", "start"}
        /\ io.last.code = 200) =>
        /\ io.ran \subseteq io.dead_states
        /\ io.alive_states = {}

\* A dead state stays in dead_states.
DeadStaysDead == [][io.dead_states \subseteq io'.dead_states]_vars

\* A state-consuming method called with a dead state raises ClientError 400
\* and sends no request.
DeadIsRejectedUnsent ==
    (io.fn = "client" /\ io.last.method \in {"run", "goals"}
        /\ to_json_string(io.last.arg) \in io.dead_states) =>
        (io.last.code = 400 /\ io.last.sent = 0)

\* A state returned since the most recent reset is not rejected as dead.
FreshIsNotRejected ==
    (io.fn = "client" /\ io.last.method \in {"run", "goals"} /\ io.last.fresh) =>
        ~(io.last.code = 400 /\ io.last.sent = 0)

\* C39: in the client a successful get_state_at_pos or start makes every state
\* run has returned dead, a call with a dead state raises ClientError 400
\* without a request, and a state returned since the most recent reset is
\* never rejected as dead.
C39_DeadAreExactlyThePreviousStates ==
    /\ ResetKillsRunStates
    /\ DeadIsRejectedUnsent
    /\ FreshIsNotRejected

\* The entries of the history of session s that hold the state h: what the
\* Session Manager keeps as the nodes of the session (sess.tactics).
NodesOf(s, h) == {k \in DOMAIN sessions[s].tactics : sessions[s].tactics[k].st = h}

\* Every returned state has a node: a call that returns a state leaves an entry
\* of its session that holds it.
ReturnedStateHasNode ==
    \A c \in Callers :
        (pc[c] = "done" /\ req[c].error = "none" /\ req[c].ret # NoState) =>
            NodesOf(req[c].sid, req[c].ret) # {}

\* Recording a call creates no second node for a state of the session.
NoSecondNode ==
    \A c \in Callers :
        (pc[c] = "done" /\ req[c].error = "none" /\ req[c].ret # NoState) =>
            Cardinality(NodesOf(req[c].sid, req[c].ret)) <= 1

\* C40: the state a call has just returned to the client is held by exactly one
\* node of its session: it has a node, and recording the call made no second
\* node for it.
C40_ReturnedStateIsOneNode ==
    ReturnedStateHasNode /\ NoSecondNode
====
